---- MODULE Spec2Model ----
(***************************************************************************)
(* Pulse Agile Dashboard: the tiered task cache (in-memory TTL map,        *)
(* SQLite task store, daily snapshot), the request-scoped metrics memo,    *)
(* the refresh pass, the client-health snapshot with manual sentiment      *)
(* overrides, and the task normalizer.                                     *)
(***************************************************************************)
EXTENDS Integers, Sequences, FiniteSets, TLC

None == "none"

(* ---- bounds of the model ---- *)
MaxGen == 2        \* upstream generations 1..MaxGen (upstream data changes MaxGen-1 times)
MaxRequests == 2   \* operations (requests and refresh passes) started in one behaviour
NumWeeks == 1      \* week offsets 0..-(NumWeeks-1) precomputed by a pass (9 in the code)
NumIds == 4        \* task ids of the raw task sets given to the normalizer

Threads == {"t1", "t2"}
Weeks == 0 .. (NumWeeks - 1)      \* k stands for week_offset = -k
Gens == 1 .. MaxGen
Lists == {"A", "B"}               \* the upstream lists of the workspace

(***************************************************************************)
(* Task normalizer (parse_task, second pass of _fetch_all_tasks_from_api). *)
(* A raw task is [id, parent, rev]; rev stands for the task's content at   *)
(* one upstream generation.  An optional value is the empty set or a       *)
(* singleton.                                                              *)
(***************************************************************************)
NoParent == 0      \* task.get("parent") is None

parse_task_keep_parents(task, parent_task_ids) ==
    {[id |-> task.id, rev |-> task.rev]}

parse_task(task, parent_task_ids) ==
    IF task.id \in parent_task_ids
    THEN {}
    ELSE {[id |-> task.id, rev |-> task.rev]}

\* first pass: the ids named as "parent" by some fetched task
parent_task_ids_of(raw_tasks) ==
    {t.parent : t \in {r \in raw_tasks : r.parent # NoParent}}

\* second pass: parse every raw task, keep the ones parse_task returns
normalize(raw_tasks) ==
    UNION {parse_task(t, parent_task_ids_of(raw_tasks)) : t \in raw_tasks}

\* the raw tasks of one upstream list at generation g:
\* list A holds a parent task 1 and its subtask 2, list B a standalone task 3
RawList(l, g) ==
    IF l = "A"
    THEN {[id |-> 1, parent |-> NoParent, rev |-> g],
          [id |-> 2, parent |-> 1, rev |-> g]}
    ELSE {[id |-> 3, parent |-> NoParent, rev |-> g]}

\* what the list requests of one fetch return when the lists in ok answer
\* (clickup_request returns {} for a failed call: no spaces, or an empty page)
RawFetch(g, ok) == UNION {RawList(l, g) : l \in ok}

\* the ways one fetch can end: every request answered, or the spaces request
\* failed (then no list is visited)
FetchOutcomes == {Lists, {}}

FullSet(g) == normalize(RawFetch(g, Lists))

\* _calculate_metrics_impl is a function of the week and of the task set
\* get_all_tasks returned; the snapshot keeps which task set it came from
Metrics(w, all_tasks) == [week |-> w, src |-> all_tasks]

EmptyData == [metrics |-> [w \in Weeks |-> {}], velocity |-> [w \in Weeks |-> {}]]
NoEntry == [present |-> FALSE, value |-> {}, expired |-> FALSE]
NoTxn == [owner |-> None, rows |-> {}]
NoFile == [state |-> "absent", data |-> EmptyData]
\* the files a previous run of the process left: its last pass saw generation 0
PreviousRun ==
    [state |-> "full",
     data |-> [metrics |-> [w \in Weeks |-> {Metrics(w, FullSet(0))}],
               velocity |-> [w \in Weeks |-> {Metrics(w, FullSet(0))}]]]

VARIABLES
    upGen,          \* generation of the data the upstream API serves now
    cache,          \* _cache["all_tasks"]: [present, value, expired]
    memo,           \* _metrics_request_cache: week -> {} or {metrics}
    taskDb,         \* committed rows of table task_cache
    dbTxn,          \* open write transaction on task_cache: [owner, rows]
    dailyFile,      \* DAILY_CACHE_FILE: [state: absent | partial | full, data]
    dailyMem,       \* _daily_cache: {} or {snapshot}
    dailyLoaded,    \* _daily_cache_loaded
    dailyLock,      \* holder of _daily_cache_lock or None
    pc, op, phase, wk, ret,   \* position of each thread
    tasks,          \* local `tasks` of refresh_daily_cache
    got,            \* local task list of get_all_tasks
    cacheData,      \* local `cache_data` of refresh_daily_cache
    r1, r2, hit2,   \* results a request got from calculate_metrics
    req,            \* identity of the operation a thread is running
    nextReq,        \* operations started so far
    memoBy,         \* history: which operation wrote each memo entry
    written,        \* history: the complete task set of the last committed write
    lastGood,       \* history: last snapshot saved from full task sets
    passDone,       \* history: some refresh pass has completed
    refreshes,      \* history: refresh passes started so far
    lateRead,       \* history: get_all_tasks began after a pass had completed
    \* ---- client health ----
    overrides,      \* sentiment_overrides.json: client -> rating or None
    healthDb,       \* row 1 of table client_health: {} or {client -> record}
    hpc, hop,       \* position of each thread in a client-health handler
    hclient, hrating,   \* arguments of save_override / delete_override
    hov,            \* local `overrides` (what load_overrides returned)
    hdata,          \* local `data` of a refresh or of a read
    served,         \* the payload api_client_health answered with
    healthOps,      \* client-health operations started so far
    \* ---- task normalizer ----
    raw_tasks,      \* the raw tasks one fetch collected
    canonical,      \* the tasks _fetch_all_tasks_from_api returns
    normDone,
    \* ---- health scorer (calculate_health) ----
    task_metrics,       \* {} (no overdue_count key) or {overdue_count}
    days_since_email,   \* {} (None) or {days}
    days_since_call,    \* {} (None) or {days}
    email_sentiment,
    health,             \* {} or {the dict calculate_health returned}
    \* ---- sentiment classification of one health pass ----
    clients_with_emails,    \* the clients sent to the classifier
    claude_reply,           \* how the classification call ends
    batch_results,          \* {} or {what batch_claude_sentiment returned}
    sentiment_pc,           \* "call", "update", "written" or "failed"
    sentiment_snapshot,     \* {} or {client -> stored email_sentiment}
    \* ---- sub-fetches of one refresh pass ----
    pass_kind,      \* "daily" (refresh_daily_cache) or "health"
    sub_ok,         \* subject -> whether its sub-fetch succeeds
    todo,           \* the subjects the pass has still to visit, in order
    processed,      \* subjects whose data went into the snapshot
    logged,         \* subjects whose failure was caught and logged
    pass_pc,        \* "run", "saved" or "failed"
    \* ---- round trip through the durable task store ----
    store_input,    \* the normalized tasks given to _write_task_cache
    task_cache,     \* table task_cache: rows [id, data]
    read_back,      \* {} or {the list _read_task_cache returned}
    store_pc,       \* "write", "read" or "done"
    \* ---- score resolution of parse_task ----
    custom_fields,  \* task["custom_fields"]: a sequence of entries [id, value]
    score,          \* {} (None) or {the score parse_task returned}
    field_pc,       \* "parse" or "done"
    \* ---- efficiency by score ----
    completed_this_week,    \* the tasks completed in the week: [score, time_spent]
    score_metrics,          \* {} or {score -> [task_count, total_completed, efficiency, status]}
    eff_pc,                 \* "calc" or "done"
    \* ---- get_velocity_history ----
    vel_weeks,      \* the argument `weeks`
    busy_weeks,     \* the weeks that have completed tasks
    vel_now,        \* the week the clock is in, 0 when the call begins
    vel_done,       \* iterations of the loop done so far
    history,        \* local `history`
    offsets,        \* history: the offset each entry of `history` was computed for
    vel_pc,         \* "loop" or "returned"
    \* ---- explicit write paths ----
    w_overrides,        \* sentiment_overrides.json: client -> rating or None
    excluded_file,      \* EXCLUDED_ASSIGNEES_FILE: {} (absent) or {list of names}
    excluded_cache,     \* _excluded_assignees_cache: {} (None) or {list of names}
    capacity_file,      \* CAPACITY_CONFIG_FILE: {} (absent) or {member hours}
    capacity_config,    \* _capacity_config: {} (None) or {member hours}
    request,            \* the last write request: [path, body]
    response,           \* {} or {its response: [code, error]}
    before,             \* history: {the stores when the last request arrived}
    writes,             \* write requests so far
    \* ---- client identities of one health pass ----
    account_tasks,      \* the tasks of the Active Accounts list: [name, status]
    health_status,      \* display name -> the health status its data gives
    active_clients,     \* accounts_data["clients"]
    health_clients,     \* result["clients"]: records [name, status]
    names_pc,           \* "accounts", "build" or "built"
    \* ---- clickup_request_paginated ----
    full_pages,     \* full pages the upstream list has
    last_len,       \* items on the page after the full ones
    failing_pages,  \* the pages whose request fails
    page,           \* local `page`
    all_items,      \* local `all_items`
    requested,      \* history: the pages requested, in order
    page_pc,        \* "loop", "return" or "returned"
    \* ---- week keys of the precomputed metrics ----
    clock_week,     \* the week the clock is in
    daily_metrics,  \* _daily_cache['metrics']: {} or {offset -> snapshot}
    answer          \* {} or {the last answer of api_metrics: [k, at, metrics]}

shared == <<upGen, cache, memo, taskDb, dbTxn, dailyFile, dailyMem, dailyLoaded, dailyLock>>
locals == <<pc, op, phase, wk, ret, tasks, got, cacheData, r1, r2, hit2, req>>
hist == <<nextReq, memoBy, written, lastGood, passDone, refreshes, lateRead>>
cacheVars == <<shared, locals, hist>>
healthVars == <<overrides, healthDb, hpc, hop, hclient, hrating, hov, hdata, served, healthOps>>
normVars == <<raw_tasks, canonical, normDone>>
scoreVars == <<task_metrics, days_since_email, days_since_call, email_sentiment, health>>
sentimentVars == <<clients_with_emails, claude_reply, batch_results, sentiment_pc, sentiment_snapshot>>
passVars == <<pass_kind, sub_ok, todo, processed, logged, pass_pc>>
storeVars == <<store_input, task_cache, read_back, store_pc>>
fieldVars == <<custom_fields, score, field_pc>>
effVars == <<completed_this_week, score_metrics, eff_pc>>
velVars == <<vel_weeks, busy_weeks, vel_now, vel_done, history, offsets, vel_pc>>
writeVars == <<w_overrides, excluded_file, excluded_cache, capacity_file, capacity_config,
               request, response, before, writes>>
namesVars == <<account_tasks, health_status, active_clients, health_clients, names_pc>>
pageVars == <<full_pages, last_len, failing_pages, page, all_items, requested, page_pc>>
weekVars == <<clock_week, daily_metrics, answer>>
laterVars == <<fieldVars, effVars, velVars, writeVars, namesVars, pageVars, weekVars>>
pureVars == <<normVars, scoreVars, sentimentVars, passVars, storeVars, laterVars>>
others == <<healthVars, pureVars>>
vars == <<cacheVars, others>>

NoMemo == [w \in Weeks |-> {}]
NoBy == [w \in Weeks |-> 0]

CacheInit ==
    /\ upGen = 1
    /\ cache = NoEntry
    /\ memo = NoMemo
    /\ \/ taskDb = {} /\ dailyFile = NoFile                 \* first start
       \/ taskDb = FullSet(0) /\ dailyFile = PreviousRun     \* restart
    /\ dbTxn = NoTxn
    /\ dailyMem = {}
    /\ dailyLoaded = FALSE
    /\ dailyLock = None
    /\ pc = [t \in Threads |-> "idle"]
    /\ op = [t \in Threads |-> None]
    /\ phase = [t \in Threads |-> None]
    /\ wk = [t \in Threads |-> 0]
    /\ ret = [t \in Threads |-> None]
    /\ tasks = [t \in Threads |-> {}]
    /\ got = [t \in Threads |-> {}]
    /\ cacheData = [t \in Threads |-> EmptyData]
    /\ r1 = [t \in Threads |-> {}]
    /\ r2 = [t \in Threads |-> {}]
    /\ hit2 = [t \in Threads |-> FALSE]
    /\ req = [t \in Threads |-> 0]
    /\ nextReq = 0
    /\ memoBy = NoBy
    /\ written = taskDb
    /\ lastGood = IF dailyFile.state = "full" THEN {dailyFile.data} ELSE {}
    /\ passDone = (dailyFile.state = "full")
    /\ refreshes = 0
    /\ lateRead = [t \in Threads |-> FALSE]


Set(f, t, v) == [f EXCEPT ![t] = v]
Entry(value) == [present |-> TRUE, value |-> value, expired |-> FALSE]
The(S) == CHOOSE x \in S : TRUE

(***************************************************************************)
(* Entry points.  A thread starts a request (the before_request hook       *)
(* clears the memo) or a refresh pass started by the scheduler or by the   *)
(* cold-start thread (no hook).                                            *)
(***************************************************************************)
Start(t, kind, first, ph) ==
    /\ pc[t] \in {"idle", "done"}
    /\ nextReq < MaxRequests
    /\ nextReq' = nextReq + 1
    /\ req' = Set(req, t, nextReq + 1)
    /\ op' = Set(op, t, kind)
    /\ pc' = Set(pc, t, first)
    /\ phase' = Set(phase, t, ph)
    /\ wk' = Set(wk, t, 0)
    /\ ret' = Set(ret, t, None)
    /\ tasks' = Set(tasks, t, {})
    /\ got' = Set(got, t, {})
    /\ cacheData' = Set(cacheData, t, EmptyData)
    /\ r1' = Set(r1, t, {})
    /\ r2' = Set(r2, t, {})
    /\ hit2' = Set(hit2, t, FALSE)
    /\ lateRead' = Set(lateRead, t, FALSE)

\* @app.before_request
clear_request_caches ==
    /\ memo' = NoMemo
    /\ memoBy' = NoBy

\* the scheduler job or the cold-start thread calls refresh_daily_cache
scheduler_refresh(t) ==
    /\ Start(t, "refresh", "r_clear", "metrics")
    /\ refreshes' = refreshes + 1
    /\ UNCHANGED <<shared, memoBy, written, lastGood, passDone>>

\* POST /api/refresh-cache
api_refresh_cache(t) ==
    /\ Start(t, "refresh", "r_clear", "metrics")
    /\ clear_request_caches
    /\ refreshes' = refreshes + 1
    /\ UNCHANGED <<upGen, cache, taskDb, dbTxn, dailyFile, dailyMem, dailyLoaded,
                   dailyLock, written, lastGood, passDone>>

\* GET /api/insights: calculate_metrics(0, None), then get_velocity_history
api_insights(t) ==
    /\ Start(t, "insights", "cm", "first")
    /\ clear_request_caches
    /\ UNCHANGED <<upGen, cache, taskDb, dbTxn, dailyFile, dailyMem, dailyLoaded,
                   dailyLock, written, lastGood, passDone, refreshes>>

\* GET /api/metrics?week_offset=0
api_metrics(t) ==
    /\ Start(t, "metrics", "m_daily", "first")
    /\ clear_request_caches
    /\ UNCHANGED <<upGen, cache, taskDb, dbTxn, dailyFile, dailyMem, dailyLoaded,
                   dailyLock, written, lastGood, passDone, refreshes>>

(***************************************************************************)
(* calculate_metrics returns m to its caller; h says the memo answered.    *)
(* The caller's next statements touch only its locals.                     *)
(***************************************************************************)
Caller(t, m, h) ==
    IF op[t] = "refresh" /\ phase[t] = "metrics" THEN
        \* for week_offset in range(0, -9, -1): cache_data['metrics'][...] = metrics
        /\ cacheData' = [cacheData EXCEPT ![t].metrics[wk[t]] = {m}]
        /\ wk' = Set(wk, t, IF wk[t] < NumWeeks - 1 THEN wk[t] + 1 ELSE 0)
        /\ phase' = Set(phase, t, IF wk[t] < NumWeeks - 1 THEN "metrics" ELSE "velocity")
        /\ pc' = Set(pc, t, "cm")
        /\ UNCHANGED <<r1, r2, hit2>>
    ELSE IF op[t] = "refresh" THEN
        \* get_velocity_history(weeks=8): one calculate_metrics per week
        /\ cacheData' = [cacheData EXCEPT ![t].velocity[wk[t]] = {m}]
        /\ wk' = Set(wk, t, IF wk[t] < NumWeeks - 1 THEN wk[t] + 1 ELSE wk[t])
        /\ pc' = Set(pc, t, IF wk[t] < NumWeeks - 1 THEN "cm" ELSE "save")
        /\ UNCHANGED <<phase, r1, r2, hit2>>
    ELSE IF op[t] = "insights" /\ phase[t] = "first" THEN
        /\ r1' = Set(r1, t, {m})
        /\ phase' = Set(phase, t, "velocity")
        /\ pc' = Set(pc, t, "cm")
        /\ UNCHANGED <<cacheData, wk, r2, hit2>>
    ELSE IF op[t] = "insights" THEN
        /\ r2' = IF wk[t] = 0 THEN Set(r2, t, {m}) ELSE r2
        /\ hit2' = IF wk[t] = 0 THEN Set(hit2, t, h) ELSE hit2
        /\ wk' = Set(wk, t, IF wk[t] < NumWeeks - 1 THEN wk[t] + 1 ELSE wk[t])
        /\ pc' = Set(pc, t, IF wk[t] < NumWeeks - 1 THEN "cm" ELSE "done")
        /\ UNCHANGED <<cacheData, phase, r1>>
    ELSE
        \* api_metrics: return jsonify(metrics)
        /\ r1' = Set(r1, t, {m})
        /\ pc' = Set(pc, t, "done")
        /\ UNCHANGED <<cacheData, phase, wk, r2, hit2>>

\* the locals of the call go out of scope
Returned(t, m, h) ==
    /\ got' = Set(got, t, {})
    /\ ret' = Set(ret, t, None)
    /\ lateRead' = Set(lateRead, t, FALSE)
    /\ Caller(t, m, h)

\* calculate_metrics: if cache_key in _metrics_request_cache: return it
calculate_metrics_check(t) ==
    /\ pc[t] = "cm"
    /\ IF memo[wk[t]] # {}
       THEN Returned(t, The(memo[wk[t]]), TRUE)
       ELSE /\ pc' = Set(pc, t, "ga")
            /\ UNCHANGED <<phase, wk, cacheData, r1, r2, hit2, got, ret, lateRead>>
    /\ UNCHANGED <<shared, op, tasks, req, nextReq, memoBy, written,
                   lastGood, passDone, refreshes>>

\* calculate_metrics: result = _calculate_metrics_impl(...); memo[key] = result
calculate_metrics_store(t) ==
    /\ pc[t] = "store"
    /\ LET m == Metrics(wk[t], got[t]) IN
        /\ memo' = [memo EXCEPT ![wk[t]] = {m}]
        /\ memoBy' = [memoBy EXCEPT ![wk[t]] = req[t]]
        /\ Returned(t, m, FALSE)
    /\ UNCHANGED <<upGen, cache, taskDb, dbTxn, dailyFile, dailyMem, dailyLoaded,
                   dailyLock, op, tasks, req, nextReq, written,
                   lastGood, passDone, refreshes>>

(***************************************************************************)
(* get_all_tasks: tier 1, tier 2, tier 3.                                  *)
(***************************************************************************)
\* get_cached("all_tasks") under _cache_lock; `if cached:` is false for []
get_all_tasks_memory(t) ==
    /\ pc[t] = "ga"
    /\ lateRead' = Set(lateRead, t, passDone)
    /\ IF cache.present /\ ~cache.expired /\ cache.value # {}
       THEN /\ got' = Set(got, t, cache.value)
            /\ pc' = Set(pc, t, "store")
            /\ ret' = ret
       ELSE /\ pc' = Set(pc, t, "db")
            /\ UNCHANGED <<got, ret>>
    /\ UNCHANGED <<shared, op, phase, wk, tasks, cacheData, r1, r2, hit2, req,
                   nextReq, memoBy, written, lastGood, passDone, refreshes>>

\* _read_task_cache: one SELECT on the committed table; `if sqlite_tasks:`
read_task_cache(t) ==
    /\ pc[t] = "db"
    /\ got' = Set(got, t, taskDb)
    /\ pc' = Set(pc, t, IF taskDb # {} THEN "ga_set" ELSE "fetch")
    /\ ret' = Set(ret, t, "ga")
    /\ UNCHANGED <<shared, op, phase, wk, tasks, cacheData, r1, r2, hit2, req, hist>>

\* set_cached("all_tasks", ...) in get_all_tasks (tier 2 and tier 3)
get_all_tasks_set_cached(t) ==
    /\ pc[t] = "ga_set"
    /\ cache' = Entry(got[t])
    /\ pc' = Set(pc, t, "store")
    /\ UNCHANGED <<upGen, memo, taskDb, dbTxn, dailyFile, dailyMem, dailyLoaded,
                   dailyLock, op, phase, wk, ret, tasks, got, cacheData, r1, r2,
                   hit2, req, hist>>

(***************************************************************************)
(* _fetch_all_tasks_from_api: the requests to the API, then                *)
(* _write_task_cache: DELETE, INSERTs and COMMIT on one connection.        *)
(***************************************************************************)
Buf(t) == IF ret[t] = "ga" THEN got[t] ELSE tasks[t]

fetch_all_tasks_from_api(t) ==
    /\ pc[t] = "fetch"
    /\ \E ok \in FetchOutcomes :
         LET ts == normalize(RawFetch(upGen, ok)) IN
           IF ret[t] = "ga"
           THEN got' = Set(got, t, ts) /\ tasks' = tasks
           ELSE tasks' = Set(tasks, t, ts) /\ got' = got
    /\ pc' = Set(pc, t, "w_begin")
    /\ UNCHANGED <<shared, op, phase, wk, ret, cacheData, r1, r2, hit2, req, hist>>

\* autocommit: every statement is visible to readers at once
write_task_cache_autocommit(t) ==
    /\ pc[t] = "w_begin"
    /\ dbTxn.owner = None
    /\ dbTxn' = [owner |-> t, rows |-> Buf(t)]
    /\ taskDb' = {}
    /\ pc' = Set(pc, t, "w_commit")
    /\ UNCHANGED <<upGen, cache, memo, dailyFile, dailyMem, dailyLoaded,
                   dailyLock, op, phase, wk, ret, tasks, got, cacheData, r1, r2,
                   hit2, req, hist>>

\* conn.execute("DELETE FROM task_cache") opens the write transaction (a second
\* writer waits for the database lock); for task in tasks: INSERT OR REPLACE.
\* Nothing is visible to other connections before the commit.
write_task_cache_statements(t) ==
    /\ pc[t] = "w_begin"
    /\ dbTxn.owner = None
    /\ dbTxn' = [owner |-> t, rows |-> Buf(t)]
    /\ pc' = Set(pc, t, "w_commit")
    /\ UNCHANGED <<upGen, cache, memo, taskDb, dailyFile, dailyMem, dailyLoaded,
                   dailyLock, op, phase, wk, ret, tasks, got, cacheData, r1, r2,
                   hit2, req, hist>>

\* conn.commit(); the caller continues with set_cached
write_task_cache_commit(t) ==
    /\ pc[t] = "w_commit"
    /\ taskDb' = dbTxn.rows
    /\ dbTxn' = NoTxn
    /\ written' = Buf(t)
    /\ pc' = Set(pc, t, IF ret[t] = "ga" THEN "ga_set" ELSE "r_set")
    /\ UNCHANGED <<upGen, cache, memo, dailyFile, dailyMem, dailyLoaded,
                   dailyLock, op, phase, wk, ret, tasks, got, cacheData, r1, r2,
                   hit2, req, nextReq, memoBy, lastGood, passDone,
                   refreshes, lateRead>>

(***************************************************************************)
(* refresh_daily_cache                                                     *)
(***************************************************************************)
\* with _cache_lock: _cache = {}
refresh_clear_cache(t) ==
    /\ pc[t] = "r_clear"
    /\ cache' = NoEntry
    /\ pc' = Set(pc, t, "r_memo")
    /\ UNCHANGED <<upGen, memo, taskDb, dbTxn, dailyFile, dailyMem, dailyLoaded,
                   dailyLock, op, phase, wk, ret, tasks, got, cacheData, r1, r2,
                   hit2, req, hist>>

\* _metrics_request_cache = {}; next: tasks = _fetch_all_tasks_from_api()
refresh_clear_memo(t) ==
    /\ pc[t] = "r_memo"
    /\ clear_request_caches
    /\ pc' = Set(pc, t, "fetch")
    /\ ret' = Set(ret, t, "refresh")
    /\ UNCHANGED <<upGen, cache, taskDb, dbTxn, dailyFile, dailyMem, dailyLoaded,
                   dailyLock, op, phase, wk, tasks, got, cacheData, r1, r2,
                   hit2, req, nextReq, written, lastGood, passDone,
                   refreshes, lateRead>>

\* set_cached("all_tasks", tasks); next: the precompute loops
refresh_set_cached(t) ==
    /\ pc[t] = "r_set"
    /\ cache' = Entry(tasks[t])
    /\ pc' = Set(pc, t, "cm")
    /\ UNCHANGED <<upGen, memo, taskDb, dbTxn, dailyFile, dailyMem, dailyLoaded,
                   dailyLock, op, phase, wk, ret, tasks, got, cacheData, r1, r2,
                   hit2, req, hist>>

IsGood(data) ==
    \A w \in Weeks :
        /\ data.metrics[w] # {}
        /\ data.metrics[w] \subseteq {Metrics(w, FullSet(g)) : g \in 0 .. MaxGen}
        /\ data.velocity[w] # {}
        /\ data.velocity[w] \subseteq {Metrics(w, FullSet(g)) : g \in 0 .. MaxGen}

\* save_daily_cache: takes _daily_cache_lock, open(DAILY_CACHE_FILE, 'w') truncates
save_daily_cache_open(t) ==
    /\ pc[t] = "save"
    /\ dailyLock = None
    /\ dailyLock' = t
    /\ dailyFile' = [state |-> "partial", data |-> EmptyData]
    /\ pc' = Set(pc, t, "save2")
    /\ UNCHANGED <<upGen, cache, memo, taskDb, dbTxn, dailyMem, dailyLoaded,
                   op, phase, wk, ret, tasks, got, cacheData, r1, r2, hit2, req, hist>>

\* json.dump(data, f); _daily_cache = data; _daily_cache_loaded = True; unlock;
\* refresh_daily_cache returns True
save_daily_cache_dump(t) ==
    /\ pc[t] = "save2"
    /\ dailyFile' = [state |-> "full", data |-> cacheData[t]]
    /\ dailyMem' = {cacheData[t]}
    /\ dailyLoaded' = TRUE
    /\ dailyLock' = None
    /\ passDone' = TRUE
    /\ lastGood' = IF IsGood(cacheData[t]) THEN {cacheData[t]} ELSE lastGood
    /\ pc' = Set(pc, t, "done")
    /\ cacheData' = Set(cacheData, t, EmptyData)
    /\ UNCHANGED <<upGen, cache, memo, taskDb, dbTxn, op, phase, wk, ret, tasks,
                   got, r1, r2, hit2, req, nextReq, memoBy,
                   written, refreshes, lateRead>>

(***************************************************************************)
(* api_metrics: get_from_daily_cache('metrics', 'all_0'), else compute     *)
(***************************************************************************)
\* what load_daily_cache returns, holding _daily_cache_lock
LoadResult ==
    IF dailyLoaded /\ dailyMem # {} THEN dailyMem
    ELSE IF dailyFile.state = "full" THEN {dailyFile.data}
    ELSE {}    \* no file, or json.load raises on a truncated file

api_metrics_daily(t) ==
    /\ pc[t] = "m_daily"
    /\ dailyLock = None
    /\ dailyMem' = LoadResult
    /\ dailyLoaded' = (dailyLoaded \/ LoadResult # {})
    /\ IF LoadResult # {} /\ The(LoadResult).metrics[0] # {}
       THEN /\ r1' = Set(r1, t, The(LoadResult).metrics[0])
            /\ pc' = Set(pc, t, "done")
       ELSE /\ r1' = r1
            /\ pc' = Set(pc, t, "cm")
    /\ UNCHANGED <<upGen, cache, memo, taskDb, dbTxn, dailyFile, dailyLock,
                   op, phase, wk, ret, tasks, got, cacheData, r2, hit2, req, hist>>

(***************************************************************************)
(* Environment: the clock passes an entry's expiry; upstream data changes  *)
(***************************************************************************)
\* time.time() >= expiry of _cache["all_tasks"]
Expire ==
    /\ cache.present /\ ~cache.expired
    /\ cache' = [cache EXCEPT !.expired = TRUE]
    /\ UNCHANGED <<upGen, memo, taskDb, dbTxn, dailyFile, dailyMem, dailyLoaded,
                   dailyLock, locals, hist>>

UpstreamChange ==
    /\ upGen < MaxGen
    /\ upGen' = upGen + 1
    /\ UNCHANGED <<cache, memo, taskDb, dbTxn, dailyFile, dailyMem, dailyLoaded,
                   dailyLock, locals, hist>>

CacheNext ==
    \/ \E t \in Threads : scheduler_refresh(t) /\ UNCHANGED others
    \/ \E t \in Threads : api_refresh_cache(t) /\ UNCHANGED others
    \/ \E t \in Threads : api_insights(t) /\ UNCHANGED others
    \/ \E t \in Threads : api_metrics(t) /\ UNCHANGED others
    \/ \E t \in Threads : calculate_metrics_check(t) /\ UNCHANGED others
    \/ \E t \in Threads : calculate_metrics_store(t) /\ UNCHANGED others
    \/ \E t \in Threads : get_all_tasks_memory(t) /\ UNCHANGED others
    \/ \E t \in Threads : read_task_cache(t) /\ UNCHANGED others
    \/ \E t \in Threads : get_all_tasks_set_cached(t) /\ UNCHANGED others
    \/ \E t \in Threads : fetch_all_tasks_from_api(t) /\ UNCHANGED others
    \/ \E t \in Threads : write_task_cache_statements(t) /\ UNCHANGED others
    \/ \E t \in Threads : write_task_cache_commit(t) /\ UNCHANGED others
    \/ \E t \in Threads : refresh_clear_cache(t) /\ UNCHANGED others
    \/ \E t \in Threads : refresh_clear_memo(t) /\ UNCHANGED others
    \/ \E t \in Threads : refresh_set_cached(t) /\ UNCHANGED others
    \/ \E t \in Threads : save_daily_cache_open(t) /\ UNCHANGED others
    \/ \E t \in Threads : save_daily_cache_dump(t) /\ UNCHANGED others
    \/ \E t \in Threads : api_metrics_daily(t) /\ UNCHANGED others
    \/ Expire /\ UNCHANGED others
    \/ UpstreamChange /\ UNCHANGED others

(***************************************************************************)
(* Client health: sentiment_overrides.py, client_health_cache.py and the   *)
(* client-health routes of app.py.                                         *)
(***************************************************************************)
MaxHealthOps == 4      \* client-health operations started in one behaviour

Clients == {"acme", "globex"}
Sentiments == {"positive", "neutral", "concerned", "negative"}
\* the labels the explored classifications compute, and the ratings the
\* explored override requests carry
ComputedLabels == {"positive", "negative"}
OverrideRatings == {"neutral", "negative"}

NoOverrides == [c \in Clients |-> None]

\* One client record of the health payload: sent is
\* communication.email_sentiment, ai is ai_sentiment and ov is
\* sentiment_override (None: key absent).  calc is history: the label the
\* classification computed for this record.
BuiltRecord(label) == [sent |-> label, ai |-> None, ov |-> None, calc |-> label]

\* apply_overrides: swap the sentiment of every overridden client, in place
apply_overrides(health_data, ovs) ==
    [c \in Clients |->
        IF ovs[c] # None
        THEN [health_data[c] EXCEPT !.ai = health_data[c].sent,
                                    !.sent = ovs[c],
                                    !.ov = ovs[c]]
        ELSE health_data[c]]

HealthIdle ==
    /\ overrides = NoOverrides
    /\ healthDb = {}
    /\ hpc = [t \in Threads |-> "idle"]
    /\ hop = [t \in Threads |-> None]
    /\ hclient = [t \in Threads |-> None]
    /\ hrating = [t \in Threads |-> None]
    /\ hov = [t \in Threads |-> NoOverrides]
    /\ hdata = [t \in Threads |-> {}]
    /\ served = [t \in Threads |-> {}]
    /\ healthOps = 0

HStart(t, kind, first, data) ==
    /\ hpc[t] \in {"idle", "done"}
    /\ healthOps < MaxHealthOps
    /\ healthOps' = healthOps + 1
    /\ hop' = Set(hop, t, kind)
    /\ hpc' = Set(hpc, t, first)
    /\ hov' = Set(hov, t, NoOverrides)
    /\ hdata' = Set(hdata, t, data)
    /\ served' = Set(served, t, {})

\* POST /api/client-health/sentiment-override with a valid body
api_sentiment_override_post(t) ==
    /\ HStart(t, "save", "load", {})
    /\ \E c \in Clients, r \in OverrideRatings :
          /\ hclient' = Set(hclient, t, c)
          /\ hrating' = Set(hrating, t, r)
    /\ UNCHANGED <<overrides, healthDb>>

\* DELETE /api/client-health/sentiment-override?client=...
api_sentiment_override_delete(t) ==
    /\ HStart(t, "delete", "load", {})
    /\ \E c \in Clients : hclient' = Set(hclient, t, c)
    /\ hrating' = Set(hrating, t, None)
    /\ UNCHANGED <<overrides, healthDb>>

\* save_override / delete_override: overrides = load_overrides()
load_overrides(t) ==
    /\ hpc[t] = "load"
    /\ hov' = Set(hov, t, overrides)
    /\ hpc' = Set(hpc, t, "write")
    /\ UNCHANGED <<overrides, healthDb, hop, hclient, hrating, hdata, served, healthOps>>

\* save_override: overrides[client] = {...}; _save_overrides(overrides)
save_override(t) ==
    /\ hpc[t] = "write" /\ hop[t] = "save"
    /\ overrides' = [hov[t] EXCEPT ![hclient[t]] = hrating[t]]
    /\ hpc' = Set(hpc, t, "done")
    /\ UNCHANGED <<healthDb, hop, hclient, hrating, hov, hdata, served, healthOps>>

\* delete_override: if client in overrides: del ...; _save_overrides(overrides)
delete_override(t) ==
    /\ hpc[t] = "write" /\ hop[t] = "delete"
    /\ overrides' = IF hov[t][hclient[t]] # None
                    THEN [hov[t] EXCEPT ![hclient[t]] = None]
                    ELSE overrides
    /\ hpc' = Set(hpc, t, "done")
    /\ UNCHANGED <<healthDb, hop, hclient, hrating, hov, hdata, served, healthOps>>

\* refresh_client_health_cache (scheduler, first-run thread or
\* POST /api/client-health/refresh): data = build_client_health_data(...)
refresh_client_health_build(t) ==
    /\ \E labels \in [Clients -> ComputedLabels] :
          HStart(t, "refresh", "apply", {[c \in Clients |-> BuiltRecord(labels[c])]})
    /\ UNCHANGED <<overrides, healthDb, hclient, hrating, hov, served>>

\* refresh_client_health_cache: apply_overrides(data); write_cache(data)
refresh_client_health_write(t) ==
    /\ hpc[t] = "apply" /\ hop[t] = "refresh"
    /\ hov' = Set(hov, t, overrides)
    /\ healthDb' = {apply_overrides(The(hdata[t]), overrides)}
    /\ hpc' = Set(hpc, t, "done")
    /\ UNCHANGED <<overrides, hop, hclient, hrating, hdata, served, healthOps>>

\* GET /api/client-health: data = read_cache()
api_client_health_read(t) ==
    /\ HStart(t, "read", "serve", healthDb)
    /\ UNCHANGED <<overrides, healthDb, hclient, hrating, hov, served>>

\* api_client_health: the "loading" answer when data is None, else
\* apply_overrides(data); return jsonify(data)
api_client_health_serve(t) ==
    /\ hpc[t] = "serve"
    /\ hov' = Set(hov, t, overrides)
    /\ served' = Set(served, t,
                     IF hdata[t] = {} THEN {}
                     ELSE {apply_overrides(The(hdata[t]), overrides)})
    /\ hpc' = Set(hpc, t, "done")
    /\ UNCHANGED <<overrides, healthDb, hop, hclient, hrating, hdata, healthOps>>

(***************************************************************************)
(* Task normalizer run on one fetched raw task set                         *)
(***************************************************************************)
Ids == 1 .. NumIds

\* the task trees the API can return: every id at most once, a subtask names
\* another task as its parent, and no task is its own ancestor
RECURSIVE Ancestors(_, _, _)
Ancestors(parentOf, i, n) ==
    IF n = 0 \/ parentOf[i] = NoParent THEN {}
    ELSE {parentOf[i]} \cup
         (IF parentOf[i] \in DOMAIN parentOf
          THEN Ancestors(parentOf, parentOf[i], n - 1) ELSE {})

RawSets ==
    {{[id |-> i, parent |-> f[i], rev |-> 1] : i \in DOMAIN f} :
        f \in {g \in UNION {[S -> Ids \cup {NoParent}] : S \in SUBSET Ids} :
                  \A i \in DOMAIN g : i \notin Ancestors(g, i, NumIds)}}

NormIdle ==
    /\ raw_tasks = {}
    /\ canonical = {}
    /\ normDone = FALSE

\* the second pass of _fetch_all_tasks_from_api on the collected raw tasks
fetch_second_pass ==
    /\ ~normDone
    /\ canonical' = normalize(raw_tasks)
    /\ normDone' = TRUE
    /\ UNCHANGED raw_tasks

(***************************************************************************)
(* Health scorer: calculate_health of client_health.py                     *)
(***************************************************************************)
MaxOverdue == 5     \* overdue counts 0..MaxOverdue
MaxDays == 15       \* days since the last email / call, 0..MaxDays

\* the labels calculate_health is called with: the four of the classifier
\* and the legacy one it still tests for
ScoredLabels == Sentiments \cup {"mildly_negative"}

\* min(touchpoints)
Min(S) == CHOOSE x \in S : \A y \in S : x <= y

\* one signal is [red |-> <<reasons>>, yellow |-> <<reasons>>]
NoSignal == [red |-> <<>>, yellow |-> <<>>]

overdue_signal_yellow_only(overdue) ==
    IF overdue >= 1
    THEN [NoSignal EXCEPT !.yellow =
            <<ToString(overdue) \o " overdue task" \o (IF overdue > 1 THEN "s" ELSE "")>>]
    ELSE NoSignal

overdue_signal_gap(overdue) ==
    IF overdue > 4
    THEN [NoSignal EXCEPT !.red = <<ToString(overdue) \o " overdue tasks">>]
    ELSE IF 1 <= overdue /\ overdue <= 3
    THEN [NoSignal EXCEPT !.yellow =
            <<ToString(overdue) \o " overdue task" \o (IF overdue > 1 THEN "s" ELSE "")>>]
    ELSE NoSignal

\* # Task-based signals
overdue_signal(overdue) ==
    IF overdue >= 4
    THEN [NoSignal EXCEPT !.red = <<ToString(overdue) \o " overdue tasks">>]
    ELSE IF 1 <= overdue /\ overdue <= 3
    THEN [NoSignal EXCEPT !.yellow =
            <<ToString(overdue) \o " overdue task" \o (IF overdue > 1 THEN "s" ELSE "")>>]
    ELSE NoSignal

touchpoint_signal_email_only(email, call) ==
    IF email = {} THEN NoSignal
    ELSE IF The(email) > 14
    THEN [NoSignal EXCEPT !.red = <<"No touchpoint in " \o ToString(The(email)) \o " days">>]
    ELSE IF The(email) > 7
    THEN [NoSignal EXCEPT !.yellow = <<"Last touchpoint " \o ToString(The(email)) \o " days ago">>]
    ELSE NoSignal

\* # Combined touchpoint signal (minimum of email and call days)
touchpoint_signal(email, call) ==
    IF email \cup call = {} THEN NoSignal
    ELSE IF Min(email \cup call) > 14
    THEN [NoSignal EXCEPT !.red =
            <<"No touchpoint in " \o ToString(Min(email \cup call)) \o " days">>]
    ELSE IF Min(email \cup call) > 7
    THEN [NoSignal EXCEPT !.yellow =
            <<"Last touchpoint " \o ToString(Min(email \cup call)) \o " days ago">>]
    ELSE NoSignal

\* # Sentiment signals
sentiment_signal(sentiment) ==
    IF sentiment = "negative"
    THEN [NoSignal EXCEPT !.red = <<"Negative email sentiment">>]
    ELSE IF sentiment \in {"concerned", "mildly_negative"}
    THEN [NoSignal EXCEPT !.yellow = <<"Concerned email tone">>]
    ELSE NoSignal

\* # Determine status; escalated is {} when the dict has no such key
determine_status_no_escalation(red_signals, yellow_signals) ==
    IF red_signals # <<>>
    THEN [status |-> "red", reasons |-> red_signals \o yellow_signals, escalated |-> {}]
    ELSE IF yellow_signals # <<>>
    THEN [status |-> "yellow", reasons |-> yellow_signals, escalated |-> {}]
    ELSE [status |-> "green", reasons |-> <<"All healthy">>, escalated |-> {}]

determine_status_yellow_first(red_signals, yellow_signals) ==
    IF red_signals # <<>>
    THEN [status |-> "red", reasons |-> yellow_signals \o red_signals, escalated |-> {}]
    ELSE IF Len(yellow_signals) >= 2
    THEN [status |-> "red", reasons |-> yellow_signals, escalated |-> {TRUE}]
    ELSE IF yellow_signals # <<>>
    THEN [status |-> "yellow", reasons |-> yellow_signals, escalated |-> {}]
    ELSE [status |-> "green", reasons |-> <<"All healthy">>, escalated |-> {}]

determine_status(red_signals, yellow_signals) ==
    IF red_signals # <<>>
    THEN [status |-> "red", reasons |-> red_signals \o yellow_signals, escalated |-> {}]
    ELSE IF Len(yellow_signals) >= 2
    THEN [status |-> "red", reasons |-> yellow_signals, escalated |-> {TRUE}]
    ELSE IF yellow_signals # <<>>
    THEN [status |-> "yellow", reasons |-> yellow_signals, escalated |-> {}]
    ELSE [status |-> "green", reasons |-> <<"All healthy">>, escalated |-> {}]

\* task_metrics.get("overdue_count", 0)
overdue_count(tm) == IF tm = {} THEN 0 ELSE The(tm)

calculate_health(tm, email, call, sentiment) ==
    determine_status(
        overdue_signal(overdue_count(tm)).red \o touchpoint_signal(email, call).red
            \o sentiment_signal(sentiment).red,
        overdue_signal(overdue_count(tm)).yellow \o touchpoint_signal(email, call).yellow
            \o sentiment_signal(sentiment).yellow)

ScoreIdle ==
    /\ task_metrics = {}
    /\ days_since_email = {}
    /\ days_since_call = {}
    /\ email_sentiment = "neutral"
    /\ health = {}

OptionalDays == {{}} \cup {{d} : d \in 0 .. MaxDays}

\* one call calculate_health(task_metrics, days_since_email, days_since_call,
\* email_sentiment)
call_calculate_health ==
    /\ health = {}
    /\ health' = {calculate_health(task_metrics, days_since_email,
                                   days_since_call, email_sentiment)}
    /\ UNCHANGED <<task_metrics, days_since_email, days_since_call, email_sentiment>>

(***************************************************************************)
(* Sentiment classification inside one health pass: batch_claude_sentiment *)
(* and step 3b of build_client_health_data, then write_cache.              *)
(***************************************************************************)
\* one entry of the reply's "results" object: rating is {} (no "rating" key)
\* or {label}; reason says whether the "reason" key is there
ReplyLabels == {"positive", "negative", "mixed"}
ReplyEntries ==
    [rating : {{}} \cup {{l} : l \in ReplyLabels}, reason : BOOLEAN]
NeutralEntry == [rating |-> {"neutral"}, reason |-> TRUE]

\* the ways the call can end: no API key, an exception inside the try block
\* (transport error, timeout, reply that is no JSON object), or a parsed
\* reply that names some of the clients
ClaudeReplies ==
    {[kind |-> "no_key", results |-> <<>>], [kind |-> "error", results |-> <<>>]}
        \cup {[kind |-> "parsed", results |-> r] :
                r \in UNION {[S -> ReplyEntries] : S \in SUBSET Clients}}

\* batch_claude_sentiment(clients_with_emails)
batch_claude_sentiment(with_emails, reply) ==
    IF reply.kind \in {"no_key", "error"}
    THEN [c \in with_emails |-> NeutralEntry]
    ELSE [c \in with_emails |->
            IF c \in DOMAIN reply.results THEN reply.results[c] ELSE NeutralEntry]

SentimentIdle ==
    /\ clients_with_emails = {}
    /\ claude_reply = [kind |-> "no_key", results |-> <<>>]
    /\ batch_results = {}
    /\ sentiment_pc = "idle"
    /\ sentiment_snapshot = {}

\* build_client_health_data step 3b: batch_results = batch_claude_sentiment(...)
build_call_batch ==
    /\ sentiment_pc = "call"
    /\ batch_results' = {batch_claude_sentiment(clients_with_emails, claude_reply)}
    /\ sentiment_pc' = "update"
    /\ UNCHANGED <<clients_with_emails, claude_reply, sentiment_snapshot>>

\* for client_name, result in batch_results.items(): result["rating"],
\* result["reason"]; a missing key raises KeyError, which only the except
\* of refresh_client_health_cache catches (no write_cache then); otherwise
\* the rest of the build runs and write_cache(data) stores the labels
build_update_and_write ==
    /\ sentiment_pc = "update"
    /\ IF \E c \in clients_with_emails :
            The(batch_results)[c].rating = {} \/ ~The(batch_results)[c].reason
       THEN /\ sentiment_pc' = "failed"
            /\ sentiment_snapshot' = sentiment_snapshot
       ELSE /\ sentiment_pc' = "written"
            /\ sentiment_snapshot' =
                  {[c \in Clients |->
                      IF c \in clients_with_emails
                      THEN The(The(batch_results)[c].rating)
                      ELSE "neutral"]}
    /\ UNCHANGED <<clients_with_emails, claude_reply, batch_results>>

(***************************************************************************)
(* Sub-fetches of one refresh pass: the list pages of                      *)
(* _fetch_all_tasks_from_api and the per-member loop of                    *)
(* refresh_daily_cache; the task lists, recordings and email lookups of    *)
(* build_client_health_data.                                               *)
(***************************************************************************)
NumPages == 2       \* pages of every upstream list: NumPages-1 full ones, then a short one
NumMembers == 2     \* team members 1..NumMembers

Subject(kind, owner, n) == [kind |-> kind, owner |-> owner, n |-> n]

\* the subjects of a daily pass in the order the code visits them
DailySubjects ==
    [i \in 1 .. (2 * NumPages) |->
        Subject("page", IF i <= NumPages THEN "A" ELSE "B", (i - 1) % NumPages)]
    \o [i \in 1 .. NumMembers |-> Subject("member", "team", i)]

\* the subjects of a health pass in the order the code visits them
HealthSubjects ==
    <<Subject("task_list", "acme", 0), Subject("task_list", "globex", 0),
      Subject("recording", "grain", 1),
      Subject("email", "acme", 0), Subject("email", "globex", 0)>>

SubjectsOf(kind) == IF kind = "daily" THEN DailySubjects ELSE HealthSubjects
SeqRange(q) == {q[i] : i \in 1 .. Len(q)}

RECURSIVE SkipList(_, _)
\* the loop over the pages of one list ends: drop its pages not yet requested
SkipList(q, l) ==
    IF q # <<>> /\ Head(q).kind = "page" /\ Head(q).owner = l
    THEN SkipList(Tail(q), l)
    ELSE q

\* what a guarded sub-fetch makes of a failure: "logged" (caught, the loop goes
\* on) or "raised" (the exception leaves the loop)
member_try_unguarded(ok) == IF ok THEN "stored" ELSE "raised"

\* refresh_daily_cache: try: ... except Exception as e: logger.error(...)
\* around the three computations of one member
member_try(ok) == IF ok THEN "stored" ELSE "logged"

\* search_client_emails_all_accounts: try/except around every mailbox
email_try(ok) == IF ok THEN "stored" ELSE "logged"

PassIdle ==
    /\ pass_kind = "daily"
    /\ sub_ok = <<>>
    /\ todo = <<>>
    /\ processed = {}
    /\ logged = {}
    /\ pass_pc = "idle"

\* the outcome of one guarded step: go on with the rest, or leave through the
\* outer except of the pass (return False, nothing saved)
PassStep(result, rest) ==
    /\ processed' = IF result = "stored" THEN processed \cup {Head(todo)} ELSE processed
    /\ logged' = IF result = "logged" THEN logged \cup {Head(todo)} ELSE logged
    /\ todo' = IF result = "raised" THEN <<>> ELSE rest
    /\ pass_pc' = IF result = "raised" THEN "failed" ELSE pass_pc
    /\ UNCHANGED <<pass_kind, sub_ok>>

\* clickup_request_paginated: one page; clickup_request answers {} for a
\* failed request, so a failed page is an empty page and ends the list, as
\* does the short last page
fetch_list_page ==
    /\ pass_pc = "run" /\ todo # <<>> /\ Head(todo).kind = "page"
    /\ IF sub_ok[Head(todo)]
       THEN PassStep("stored", Tail(todo))
       ELSE PassStep("logged", SkipList(todo, Head(todo).owner))

\* refresh_daily_cache: for member in cache_data['team_members']: try: ...
cache_member_data ==
    /\ pass_pc = "run" /\ todo # <<>> /\ Head(todo).kind = "member"
    /\ PassStep(member_try(sub_ok[Head(todo)]), Tail(todo))

\* fetch_client_tasks: tasks_data = clickup_request_fn(...) is {} on failure
fetch_client_task_list ==
    /\ pass_pc = "run" /\ todo # <<>> /\ Head(todo).kind = "task_list"
    /\ PassStep(IF sub_ok[Head(todo)] THEN "stored" ELSE "logged", Tail(todo))

\* build_client_health_data: for rec in recordings: try: parse the date
\* except Exception: logger.debug(...)
match_recording ==
    /\ pass_pc = "run" /\ todo # <<>> /\ Head(todo).kind = "recording"
    /\ PassStep(IF sub_ok[Head(todo)] THEN "stored" ELSE "logged", Tail(todo))

\* build_client_health_data: emails = search_client_emails_all_accounts(...)
search_client_emails ==
    /\ pass_pc = "run" /\ todo # <<>> /\ Head(todo).kind = "email"
    /\ PassStep(email_try(sub_ok[Head(todo)]), Tail(todo))

\* save_daily_cache(cache_data) / write_cache(data): the pass returns True
pass_save ==
    /\ pass_pc = "run" /\ todo = <<>>
    /\ pass_pc' = "saved"
    /\ UNCHANGED <<pass_kind, sub_ok, todo, processed, logged>>

(***************************************************************************)
(* Round trip of a task list through the durable task store:               *)
(* _write_task_cache then _read_task_cache.                                *)
(***************************************************************************)
NumStoreIds == 2    \* task ids 1..NumStoreIds of the stored lists
MaxStamp == 1       \* distinct timestamps 1..MaxStamp of the date fields

\* the values of a date field: None, a datetime, or (inside the table) a string
Null == [t |-> "null", v |-> 0]
Datetime(n) == [t |-> "datetime", v |-> n]
Str(n) == [t |-> "str", v |-> n]

\* datetime.isoformat() and datetime.fromisoformat()
isoformat(d) == Str(d.v)
fromisoformat(x) == Datetime(x.v)

DateKeys == {"date_closed", "date_created", "due_date"}

\* if serializable.get(k) and isinstance(serializable[k], datetime):
\*     serializable[k] = serializable[k].isoformat()
serialize_date(x) == IF x.t = "datetime" THEN isoformat(x) ELSE x

deserialize_date_keep_string(x) == x

\* if task.get(k) and isinstance(task[k], str): task[k] = datetime.fromisoformat(task[k])
deserialize_date(x) == IF x.t = "str" THEN fromisoformat(x) ELSE x

\* json.dumps(serializable) of one task, as the row (id, data)
task_row(task) ==
    [id |-> task.id,
     data |-> [id |-> task.id,
               date_closed |-> serialize_date(task.date_closed),
               date_created |-> serialize_date(task.date_created),
               due_date |-> serialize_date(task.due_date)]]

\* json.loads(data_str) and the deserialization of the three date keys
row_task(row) ==
    [id |-> row.data.id,
     date_closed |-> deserialize_date(row.data.date_closed),
     date_created |-> deserialize_date(row.data.date_created),
     due_date |-> deserialize_date(row.data.due_date)]

StoreDates == {Null} \cup {Datetime(n) : n \in 1 .. MaxStamp}

\* normalized task lists: every id at most once
StoreTaskSets ==
    {{[id |-> i, date_closed |-> f[i][1], date_created |-> f[i][2], due_date |-> f[i][3]] :
          i \in DOMAIN f} :
        f \in UNION {[S -> StoreDates \X StoreDates \X StoreDates] :
                        S \in SUBSET (1 .. NumStoreIds)}}

StoreIdle ==
    /\ store_input = {}
    /\ task_cache = {}
    /\ read_back = {}
    /\ store_pc = "idle"

\* _write_task_cache(tasks): DELETE FROM task_cache; INSERT OR REPLACE per task; commit
write_task_cache ==
    /\ store_pc = "write"
    /\ task_cache' = {task_row(task) : task \in store_input}
    /\ store_pc' = "read"
    /\ UNCHANGED <<store_input, read_back>>

\* _read_task_cache(): SELECT data FROM task_cache; json.loads per row
read_task_cache_rows ==
    /\ store_pc = "read"
    /\ read_back' = {{row_task(row) : row \in task_cache}}
    /\ store_pc' = "done"
    /\ UNCHANGED <<store_input, task_cache>>

(***************************************************************************)
(* Score resolution of parse_task: the scan of task["custom_fields"] for   *)
(* the Fibonacci field.  A JSON value is [t, v]: t is its Python type and  *)
(* v an integer (for a string its index: string k in 1..6 is the k-th key  *)
(* of SCORE_OPTIONS, string 0 is any other string; for a bool 1 is True    *)
(* and 0 is False, which is how a bool hashes and compares as a dict key). *)
(***************************************************************************)
MaxFields == 2       \* entries of custom_fields of one task
MaxOrderIndex == 6   \* integer values -1 .. MaxOrderIndex of a field

FIBONACCI_FIELD_ID == "c88be994-51de-4bd3-b2f5-7850202b84bd"
OtherFieldId == "other-field"

PyInt(n) == [t |-> "int", v |-> n]
PyBool(b) == [t |-> "bool", v |-> IF b THEN 1 ELSE 0]
PyFloat(n) == [t |-> "float", v |-> n]
PyList == [t |-> "list", v |-> 0]
Absent == [t |-> "absent", v |-> 0]     \* the entry has no "value" key

\* SCORE_OPTIONS, by the index of the UUID key
SCORE_OPTIONS == [k \in 1 .. 6 |-> <<1, 2, 3, 5, 8, 13>>[k]]
ORDERINDEX_TO_SCORE == [k \in 0 .. 5 |-> <<1, 2, 3, 5, 8, 13>>[k + 1]]

\* d.get(key): {} stands for None
dict_get(d, key) == IF key \in DOMAIN d THEN {d[key]} ELSE {}

\* cf.get("value"): None when the key is absent or holds null
cf_get_value(cf) == IF cf.value.t = "absent" THEN Null ELSE cf.value

\* isinstance(value, str); isinstance(value, int) holds for a bool as well
isinstance_str(value) == value.t = "str"
isinstance_int(value) == value.t \in {"int", "bool"}

\* if isinstance(value, str): score = SCORE_OPTIONS.get(value)
\* elif isinstance(value, int): score = ORDERINDEX_TO_SCORE.get(value)
resolve_score(value) ==
    IF isinstance_str(value) THEN dict_get(SCORE_OPTIONS, value.v)
    ELSE IF isinstance_int(value) THEN dict_get(ORDERINDEX_TO_SCORE, value.v)
    ELSE {}

\* for cf in task.get("custom_fields", []):
\*     if cf.get("id") == FIBONACCI_FIELD_ID and cf.get("value") is not None:
\*         ...; break
RECURSIVE fibonacci_score(_)
fibonacci_score(fields) ==
    IF fields = <<>> THEN {}
    ELSE LET cf == Head(fields) IN
         IF cf.id = FIBONACCI_FIELD_ID /\ cf_get_value(cf) # Null
         THEN resolve_score(cf_get_value(cf))
         ELSE fibonacci_score(Tail(fields))

FieldValues ==
    {Str(n) : n \in 0 .. 6} \cup {PyInt(n) : n \in -1 .. MaxOrderIndex}
        \cup {PyBool(b) : b \in BOOLEAN} \cup {PyFloat(2), PyList, Null, Absent}

FieldEntries == [id : {FIBONACCI_FIELD_ID, OtherFieldId}, value : FieldValues]

FieldIdle ==
    /\ custom_fields = <<>>
    /\ score = {}
    /\ field_pc = "idle"

\* parse_task(task, ...) on a task that is not a parent: the "score" it returns
call_parse_task ==
    /\ field_pc = "parse"
    /\ score' = fibonacci_score(custom_fields)
    /\ field_pc' = "done"
    /\ UNCHANGED custom_fields

(***************************************************************************)
(* Efficiency by score of _calculate_metrics_impl, from the tasks          *)
(* completed in the week.  Hours are counted in quarter hours, so that     *)
(* every entry of EXPECTED_HOURS is an integer; the logged times of the    *)
(* model are whole quarter hours, for which the quotients of the code      *)
(* compare with the thresholds as the exact quotients do.                  *)
(***************************************************************************)
MaxCompleted == 2    \* tasks completed in the week

ScoreList == <<1, 2, 3, 5, 8, 13>>

\* EXPECTED_HOURS, in quarter hours
EXPECTED_HOURS ==
    [s \in {1, 2, 3, 5, 8, 13} |->
        CASE s = 1 -> [min |-> 2, max |-> 4, mid |-> 3]
          [] s = 2 -> [min |-> 4, max |-> 8, mid |-> 6]
          [] s = 3 -> [min |-> 8, max |-> 16, mid |-> 12]
          [] s = 5 -> [min |-> 16, max |-> 32, mid |-> 24]
          [] s = 8 -> [min |-> 32, max |-> 64, mid |-> 48]
          [] s = 13 -> [min |-> 64, max |-> 128, mid |-> 96]]

\* time_per_score[score]: the hours of the tasks with that score and
\* time_spent_ms > 0, in the order of completed_this_week
RECURSIVE time_per_score(_, _)
time_per_score(completed, s) ==
    IF completed = <<>> THEN <<>>
    ELSE LET task == Head(completed) IN
         IF task.score = {s} /\ task.time_spent > 0
         THEN <<task.time_spent>> \o time_per_score(Tail(completed), s)
         ELSE time_per_score(Tail(completed), s)

\* sum(times)
RECURSIVE sum(_)
sum(times) == IF times = <<>> THEN 0 ELSE Head(times) + sum(Tail(times))

\* sum(1 for t in completed_this_week if t["score"] == score)
RECURSIVE total_at_score(_, _)
total_at_score(completed, s) ==
    IF completed = <<>> THEN 0
    ELSE (IF Head(completed).score = {s} THEN 1 ELSE 0) + total_at_score(Tail(completed), s)

\* a quotient num / den, kept exact
Quotient(num, den) == [num |-> num, den |-> den]

\* round(x, 2) in hundredths, ties to even
round2(x) ==
    LET n == 100 * x.num
        fl == n \div x.den
        rem == n % x.den
    IN  IF 2 * rem < x.den THEN fl
        ELSE IF 2 * rem > x.den THEN fl + 1
        ELSE IF fl % 2 = 0 THEN fl ELSE fl + 1

\* the branch on avg_hours with "<" in place of "<=" at expected["max"]
efficiency_status_strict_max(avg_hours, expected) ==
    IF avg_hours.num < expected.min * avg_hours.den THEN "exceeding"
    ELSE IF avg_hours.num < expected.max * avg_hours.den THEN "on_track"
    ELSE "over"

\* if avg_hours < expected["min"]: "exceeding"
\* elif avg_hours <= expected["max"]: "on_track"
\* else: "over"
efficiency_status(avg_hours, expected) ==
    IF avg_hours.num < expected.min * avg_hours.den THEN "exceeding"
    ELSE IF avg_hours.num <= expected.max * avg_hours.den THEN "on_track"
    ELSE "over"

\* one entry of score_metrics
score_metric(completed, s) ==
    LET times == time_per_score(completed, s)
        expected == EXPECTED_HOURS[s]
    IN  IF times = <<>>
        THEN [task_count |-> 0,
              total_completed |-> total_at_score(completed, s),
              efficiency |-> {},
              status |-> "no_data"]
        ELSE LET avg_hours == Quotient(sum(times), Len(times)) IN
             [task_count |-> Len(times),
              total_completed |-> total_at_score(completed, s),
              efficiency |-> {round2(Quotient(avg_hours.num, avg_hours.den * expected.mid))},
              status |-> efficiency_status(avg_hours, expected)]

\* for score in [1, 2, 3, 5, 8, 13]: score_metrics[score] = {...}
score_metrics_of(completed) ==
    [s \in SeqRange(ScoreList) |-> score_metric(completed, s)]

\* the times logged on a task of score s: none, and around each threshold
TimeSamples(s) ==
    {0, EXPECTED_HOURS[s].min - 1, EXPECTED_HOURS[s].min, EXPECTED_HOURS[s].mid,
     EXPECTED_HOURS[s].max, EXPECTED_HOURS[s].max + 1}

CompletedTasks ==
    UNION {[score : {{s}}, time_spent : TimeSamples(s)] : s \in SeqRange(ScoreList)}
        \cup [score : {{}}, time_spent : {0, 4}]

EffIdle ==
    /\ completed_this_week = <<>>
    /\ score_metrics = {}
    /\ eff_pc = "idle"

\* the efficiency part of _calculate_metrics_impl
calculate_score_metrics ==
    /\ eff_pc = "calc"
    /\ score_metrics' = {score_metrics_of(completed_this_week)}
    /\ eff_pc' = "done"
    /\ UNCHANGED completed_this_week

(***************************************************************************)
(* get_velocity_history: one calculate_metrics call per week offset.  A    *)
(* week is numbered relative to the week in which the call begins; every   *)
(* calculate_metrics call reads the clock again (get_week_bounds), and the *)
(* clock may pass a Monday 00:00 between two calls.                        *)
(***************************************************************************)
MaxHistoryWeeks == 8    \* the argument `weeks` ranges over 0 .. MaxHistoryWeeks
MaxBoundaries == 1      \* week boundaries the clock passes during one call

\* the weeks a call can look at
HistoryWeeks == -MaxHistoryWeeks .. MaxBoundaries

\* what get_velocity_history reads from calculate_metrics(week_offset=offset):
\* the week of now + offset weeks and its completed tasks (busy: the weeks
\* with a completed task of 5 points)
velocity_metrics(now, offset, busy) ==
    [week_start |-> now + offset,
     points_completed |-> IF (now + offset) \in busy THEN 5 ELSE 0,
     tasks_completed |-> IF (now + offset) \in busy THEN 1 ELSE 0]

\* an append that leaves out the weeks without completed tasks
history_append_skip_empty(h, metrics) ==
    IF metrics.tasks_completed = 0 THEN h
    ELSE Append(h, [week_start |-> metrics.week_start,
                    points |-> metrics.points_completed,
                    tasks |-> metrics.tasks_completed])

\* history.append({"week_start": ..., "points": ..., "tasks": ...})
history_append(h, metrics) ==
    Append(h, [week_start |-> metrics.week_start,
               points |-> metrics.points_completed,
               tasks |-> metrics.tasks_completed])

\* list(reversed(history))
reversed(h) == [i \in 1 .. Len(h) |-> h[Len(h) + 1 - i]]

VelIdle ==
    /\ vel_weeks = 0
    /\ busy_weeks = {}
    /\ vel_now = 0
    /\ vel_done = 0
    /\ history = <<>>
    /\ offsets = <<>>
    /\ vel_pc = "idle"

\* one iteration of: for offset in range(0, -weeks, -1)
velocity_iteration ==
    /\ vel_pc = "loop"
    /\ vel_done < vel_weeks
    /\ history' = history_append(history, velocity_metrics(vel_now, -vel_done, busy_weeks))
    /\ offsets' = Append(offsets, -vel_done)
    /\ vel_done' = vel_done + 1
    /\ UNCHANGED <<vel_weeks, busy_weeks, vel_now, vel_pc>>

\* the loop is exhausted: history = list(reversed(history)); return
velocity_return ==
    /\ vel_pc = "loop"
    /\ vel_done >= vel_weeks
    /\ history' = reversed(history)
    /\ offsets' = reversed(offsets)
    /\ vel_pc' = "returned"
    /\ UNCHANGED <<vel_weeks, busy_weeks, vel_now, vel_done>>

\* the clock passes Monday 00:00 while the call runs
week_boundary ==
    /\ vel_pc = "loop"
    /\ vel_now < MaxBoundaries
    /\ vel_now' = vel_now + 1
    /\ UNCHANGED <<vel_weeks, busy_weeks, vel_done, history, offsets, vel_pc>>

(***************************************************************************)
(* The explicit write paths and their validation: POST                     *)
(* /api/client-health/sentiment-override, POST /api/excluded-assignees and *)
(* POST /api/team-capacity.  A request body is                             *)
(*   [kind, items, client, rating, hours]                                  *)
(* kind is what request.get_json() returned: "none", "list" (of items),    *)
(* "object" (with the keys client, rating and the member hours), "str" (a  *)
(* non-empty string) or "zero" (the number 0).  A JSON scalar is [t, s].   *)
(***************************************************************************)
MaxWrites == 2      \* write requests in one behaviour
MaxNames == 2       \* length of the list sent to /api/excluded-assignees

JStr(s) == [t |-> "str", s |-> s]
JNum(s) == [t |-> "int", s |-> s]

NoItems == <<>>
Body(kind, items, client, rating, hours) ==
    [kind |-> kind, items |-> items, client |-> client, rating |-> rating, hours |-> hours]

\* `not body`: None, [], {}, 0 are falsy
falsy(body) ==
    \/ body.kind \in {"none", "zero"}
    \/ body.kind = "list" /\ body.items = <<>>
    \/ body.kind = "object" /\ body.client = {} /\ body.rating = {} /\ body.hours = {}

\* body.get(key) is falsy: key absent, or "" (of the values of the model)
missing(field) == field = {} \/ field = {JStr("")}

\* str.lower() and str.strip() on the strings of the model
lower(s) == IF s = "Negative" THEN "negative" ELSE s
strip(s) == IF s = " Ann " THEN "Ann" ELSE s

Response(code, error) == [code |-> code, error |-> error]
Ok == Response(200, "")

\* api_sentiment_override_post up to the call of save_override: {} when the
\* request is accepted, else the response
override_post_check(body) ==
    IF falsy(body) THEN {Response(400, "client and rating are required")}
    ELSE IF body.kind # "object"
    THEN {Response(500, "object has no attribute 'get'")}
    ELSE IF missing(body.client) \/ missing(body.rating)
    THEN {Response(400, "client and rating are required")}
    ELSE IF The(body.rating).t # "str"
    THEN {Response(500, "object has no attribute 'lower'")}
    ELSE IF lower(The(body.rating).s) \notin Sentiments
    THEN {Response(400, "rating must be positive/neutral/concerned/negative")}
    ELSE {}

\* if not isinstance(names, list) or not all(isinstance(n, str) for n in names)
excluded_check(names) ==
    IF names.kind # "list" \/ \E i \in DOMAIN names.items : names.items[i].t # "str"
    THEN {Response(400, "Expected a JSON array of name strings")}
    ELSE {}

\* names = [n.strip() for n in names if n.strip()]
RECURSIVE strip_names(_)
strip_names(items) ==
    IF items = <<>> THEN <<>>
    ELSE IF strip(Head(items).s) # "" THEN <<strip(Head(items).s)>> \o strip_names(Tail(items))
    ELSE strip_names(Tail(items))

\* the check of api_save_team_capacity without the test for an empty body
capacity_check_any_dict(capacity) ==
    IF capacity.kind # "object" THEN {Response(400, "Invalid capacity data")} ELSE {}

\* if not capacity or not isinstance(capacity, dict)
capacity_check(capacity) ==
    IF falsy(capacity) \/ capacity.kind # "object"
    THEN {Response(400, "Invalid capacity data")}
    ELSE {}

OverrideBodies ==
    {Body("none", NoItems, {}, {}, {}), Body("list", <<JStr("acme")>>, {}, {}, {})}
        \cup {Body("object", NoItems, c, r, {}) :
                c \in {{}, {JStr("")}, {JStr("acme")}},
                r \in {{}, {JStr("")}, {JStr("negative")}, {JStr("Negative")},
                       {JStr("great")}, {JNum("3")}}}

NameItems == {JStr("Ann"), JStr(" Ann "), JStr(""), JNum("5")}

ExcludedBodies ==
    {Body("none", NoItems, {}, {}, {}), Body("object", NoItems, {}, {}, {<<"Ann", 20>>}),
     Body("str", NoItems, {}, {}, {})}
        \cup {Body("list", items, {}, {}, {}) :
                items \in UNION {[1 .. n -> NameItems] : n \in 0 .. MaxNames}}

CapacityBodies ==
    {Body("none", NoItems, {}, {}, {}), Body("zero", NoItems, {}, {}, {}),
     Body("str", NoItems, {}, {}, {}), Body("list", NoItems, {}, {}, {}),
     Body("list", <<JStr("Ann")>>, {}, {}, {}), Body("object", NoItems, {}, {}, {}),
     Body("object", NoItems, {}, {}, {<<"Ann", 20>>}),
     Body("object", NoItems, {}, {}, {<<"Ann", 30>>})}

\* the three stores and the in-memory copies of two of them
Stores ==
    [overrides |-> w_overrides,
     excluded_file |-> excluded_file, excluded_cache |-> excluded_cache,
     capacity_file |-> capacity_file, capacity_config |-> capacity_config]

WriteIdle ==
    /\ w_overrides = NoOverrides
    /\ excluded_file = {}
    /\ excluded_cache = {}
    /\ capacity_file = {}
    /\ capacity_config = {}
    /\ request = [path |-> "none", body |-> Body("none", NoItems, {}, {}, {})]
    /\ response = {}
    /\ before = {}
    /\ writes = 0

Request(path, body, resp) ==
    /\ writes < MaxWrites
    /\ writes' = writes + 1
    /\ request' = [path |-> path, body |-> body]
    /\ response' = {resp}
    /\ before' = {Stores}

\* POST /api/client-health/sentiment-override
sentiment_override_post_request ==
    \E body \in OverrideBodies :
        IF override_post_check(body) # {}
        THEN /\ Request("sentiment-override", body, The(override_post_check(body)))
             /\ UNCHANGED <<w_overrides, excluded_file, excluded_cache, capacity_file,
                            capacity_config>>
        ELSE /\ Request("sentiment-override", body, Ok)
             /\ w_overrides' = [w_overrides EXCEPT ![The(body.client).s] =
                                    lower(The(body.rating).s)]
             /\ UNCHANGED <<excluded_file, excluded_cache, capacity_file, capacity_config>>

\* POST /api/excluded-assignees
save_excluded_assignees_request ==
    \E names \in ExcludedBodies :
        IF excluded_check(names) # {}
        THEN /\ Request("excluded-assignees", names, The(excluded_check(names)))
             /\ UNCHANGED <<w_overrides, excluded_file, excluded_cache, capacity_file,
                            capacity_config>>
        ELSE /\ Request("excluded-assignees", names, Ok)
             /\ excluded_file' = {strip_names(names.items)}
             /\ excluded_cache' = {strip_names(names.items)}
             /\ UNCHANGED <<w_overrides, capacity_file, capacity_config>>

\* POST /api/team-capacity
save_team_capacity_request ==
    \E capacity \in CapacityBodies :
        IF capacity_check(capacity) # {}
        THEN /\ Request("team-capacity", capacity, The(capacity_check(capacity)))
             /\ UNCHANGED <<w_overrides, excluded_file, excluded_cache, capacity_file,
                            capacity_config>>
        ELSE /\ Request("team-capacity", capacity, Ok)
             /\ capacity_file' = {capacity.hours}
             /\ capacity_config' = {capacity.hours}
             /\ UNCHANGED <<w_overrides, excluded_file, excluded_cache>>

(***************************************************************************)
(* Client identities of one health pass: fetch_active_accounts with        *)
(* _normalize_client_name, then step 4 of build_client_health_data.  A     *)
(* source account name is [fragment, text]: fragment is the key of         *)
(* _SHORT_NAME_ALIASES its lower-cased text contains (None: no key), text  *)
(* the name with the outer blanks stripped.                                *)
(***************************************************************************)
MaxAccounts == 2    \* tasks of the Active Accounts list

_SHORT_NAME_ALIASES ==
    [fragment \in {"dcc marketing", "f.e.a.s.t."} |->
        IF fragment = "dcc marketing" THEN "DCC" ELSE "FEAST"]

\* for fragment, short in _SHORT_NAME_ALIASES.items():
\*     if fragment in raw_lower: return short
\* return raw_name.strip()
_normalize_client_name(raw_name) ==
    IF raw_name.fragment \in DOMAIN _SHORT_NAME_ALIASES
    THEN _SHORT_NAME_ALIASES[raw_name.fragment]
    ELSE raw_name.text

ACTIVE_ACCOUNT_STATUSES == {"engaged"}

SourceNames ==
    {[fragment |-> "dcc marketing", text |-> "DCC Marketing - Web"],
     [fragment |-> "dcc marketing", text |-> "DCC Marketing - SEO"],
     [fragment |-> "f.e.a.s.t.", text |-> "F.E.A.S.T. Global"],
     [fragment |-> None, text |-> "Acme Corp"]}

AccountTasks == [name : SourceNames, status : {"engaged", "churned"}]

\* the display names in the order of Python's string comparison
DisplayOrder == <<"Acme Corp", "DCC", "FEAST">>
NameRank == [name \in SeqRange(DisplayOrder) |->
                CHOOSE i \in DOMAIN DisplayOrder : DisplayOrder[i] = name]

\* status_order of build_client_health_data
status_order(status) == CASE status = "red" -> 0 [] status = "yellow" -> 1 [] OTHER -> 2

\* list.sort(key=...): stable insertion by the key (a function)
Insert(x, q, key) ==
    LET n == Cardinality({i \in DOMAIN q : key[q[i]] <= key[x]})
    IN  SubSeq(q, 1, n) \o <<x>> \o SubSeq(q, n + 1, Len(q))

RECURSIVE Sorted(_, _)
Sorted(q, key) ==
    IF q = <<>> THEN <<>>
    ELSE Insert(q[Len(q)], Sorted(SubSeq(q, 1, Len(q) - 1), key), key)

\* the loop of fetch_active_accounts over tasks_data["tasks"], before the sort
RECURSIVE display_names(_)
display_names(account_list) ==
    IF account_list = <<>> THEN <<>>
    ELSE IF Head(account_list).status \notin ACTIVE_ACCOUNT_STATUSES
    THEN display_names(Tail(account_list))
    ELSE <<_normalize_client_name(Head(account_list).name)>> \o display_names(Tail(account_list))

\* fetch_active_accounts(...)["clients"]
fetch_active_accounts(account_list) == Sorted(display_names(account_list), NameRank)

\* key=lambda c: (status_order.get(c["health"]["status"], 3), c["name"])
ClientKey ==
    [c \in [name : SeqRange(DisplayOrder), status : {"red", "yellow", "green"}] |->
        status_order(c.status) * (Len(DisplayOrder) + 1) + NameRank[c.name]]

\* step 4: one record per entry of active_clients, sorted by status and name
build_clients(clients, status_of) ==
    Sorted([i \in DOMAIN clients |-> [name |-> clients[i], status |-> status_of[clients[i]]]],
           ClientKey)

NamesIdle ==
    /\ account_tasks = <<>>
    /\ health_status = [n \in SeqRange(DisplayOrder) |-> "green"]
    /\ active_clients = <<>>
    /\ health_clients = <<>>
    /\ names_pc = "idle"

\* step 0 of build_client_health_data
build_fetch_active_accounts ==
    /\ names_pc = "accounts"
    /\ active_clients' = fetch_active_accounts(account_tasks)
    /\ names_pc' = "build"
    /\ UNCHANGED <<account_tasks, health_status, health_clients>>

\* step 4 of build_client_health_data: result["clients"]
build_client_records ==
    /\ names_pc = "build"
    /\ health_clients' = build_clients(active_clients, health_status)
    /\ names_pc' = "built"
    /\ UNCHANGED <<account_tasks, health_status, active_clients>>

(***************************************************************************)
(* clickup_request_paginated against one upstream list.  The list has      *)
(* full_pages pages of page_size items and then a page of last_len items   *)
(* (fewer than page_size); the requests for the pages in failing_pages     *)
(* fail, and clickup_request answers {} for them.  An item is <<page, i>>. *)
(***************************************************************************)
MaxFullPages == 3   \* full pages of the upstream list: 0 .. MaxFullPages
PageSize == 2       \* page_size (100 in the code)

\* the items the upstream holds on a page
upstream_page(p, full, last) ==
    IF p < full THEN [i \in 1 .. PageSize |-> <<p, i>>]
    ELSE IF p = full THEN [i \in 1 .. last |-> <<p, i>>]
    ELSE <<>>

\* clickup_request(paginated_endpoint).get(result_key, [])
page_items(p, full, last, failing) ==
    IF p \in failing THEN <<>> ELSE upstream_page(p, full, last)

\* a loop that goes on until a page comes back empty
last_page_when_empty(items, page_size) == Len(items) = 0

\* if len(items) < page_size: break
last_page(items, page_size) == Len(items) < page_size

PageIdle ==
    /\ full_pages = 0
    /\ last_len = 0
    /\ failing_pages = {}
    /\ page = 0
    /\ all_items = <<>>
    /\ requested = <<>>
    /\ page_pc = "idle"

\* one iteration of the while loop: request the page, extend all_items, and
\* either break or go to the next page
request_page ==
    /\ page_pc = "loop"
    /\ LET items == page_items(page, full_pages, last_len, failing_pages) IN
         /\ all_items' = all_items \o items
         /\ requested' = Append(requested, page)
         /\ IF last_page(items, PageSize)
            THEN page_pc' = "return" /\ page' = page
            ELSE page_pc' = "loop" /\ page' = page + 1
    /\ UNCHANGED <<full_pages, last_len, failing_pages>>

\* return all_items
paginated_return ==
    /\ page_pc = "return"
    /\ page_pc' = "returned"
    /\ UNCHANGED <<full_pages, last_len, failing_pages, page, all_items, requested>>

(***************************************************************************)
(* Week keys of the precomputed metrics: refresh_daily_cache stores the    *)
(* snapshot of week offset k under the key "all_<k>", api_metrics looks    *)
(* "all_<k>" up before it computes.  clock_week is the week the clock is   *)
(* in (weeks are numbered by their Monday); a pass is taken to run within  *)
(* one week.                                                               *)
(***************************************************************************)
MaxClockWeeks == 3      \* the clock starts in week 0 and passes MaxClockWeeks Mondays
NumCachedOffsets == 2   \* offsets 0 .. -(NumCachedOffsets-1) a pass precomputes (9 in the code)

CachedOffsets == (1 - NumCachedOffsets) .. 0
RequestOffsets == (-NumCachedOffsets) .. 0

\* get_week_bounds(week_offset=k) at the time of the call: the Monday-to-Sunday
\* week that contains now + k weeks
get_week_bounds(now, k) == now + k

\* calculate_metrics(week_offset=k, assignee_id=None)["week"]
week_metrics(now, k) == [week |-> get_week_bounds(now, k)]

\* cache_data['metrics'] of a pass: key all_<k> -> snapshot
precomputed_metrics(now) == [k \in CachedOffsets |-> week_metrics(now, k)]

WeekIdle ==
    /\ clock_week = 0
    /\ daily_metrics = {}
    /\ answer = {}

\* refresh_daily_cache: the loop over week_offset and save_daily_cache
week_refresh_daily_cache ==
    /\ daily_metrics' = {precomputed_metrics(clock_week)}
    /\ UNCHANGED <<clock_week, answer>>

\* api_metrics for week_offset = k, whole team: the daily snapshot when it has
\* the key, else calculate_metrics
week_api_metrics ==
    \E k \in RequestOffsets :
        /\ answer' =
              {[k |-> k, at |-> clock_week,
                metrics |-> IF \E m \in daily_metrics : k \in DOMAIN m
                            THEN The(daily_metrics)[k]
                            ELSE week_metrics(clock_week, k)]}
        /\ UNCHANGED <<clock_week, daily_metrics>>

\* the clock passes a Monday 00:00
clock_passes_monday ==
    /\ clock_week < MaxClockWeeks
    /\ clock_week' = clock_week + 1
    /\ UNCHANGED <<daily_metrics, answer>>

(***************************************************************************)
(* Specifications                                                          *)
(***************************************************************************)
LaterIdle == FieldIdle /\ EffIdle /\ VelIdle /\ WriteIdle /\ NamesIdle /\ PageIdle /\ WeekIdle
EarlierIdle == NormIdle /\ ScoreIdle /\ SentimentIdle /\ PassIdle /\ StoreIdle
earlierVars == <<normVars, scoreVars, sentimentVars, passVars, storeVars>>
PureIdle == EarlierIdle /\ LaterIdle

InitCache == CacheInit /\ HealthIdle /\ PureIdle

SpecCache == InitCache /\ [][CacheNext]_vars

CacheIdle == CacheInit /\ taskDb = {}

InitHealth == CacheIdle /\ HealthIdle /\ PureIdle

HealthNext ==
    \/ \E t \in Threads : api_sentiment_override_post(t) /\ UNCHANGED <<cacheVars, pureVars>>
    \/ \E t \in Threads : api_sentiment_override_delete(t) /\ UNCHANGED <<cacheVars, pureVars>>
    \/ \E t \in Threads : load_overrides(t) /\ UNCHANGED <<cacheVars, pureVars>>
    \/ \E t \in Threads : save_override(t) /\ UNCHANGED <<cacheVars, pureVars>>
    \/ \E t \in Threads : delete_override(t) /\ UNCHANGED <<cacheVars, pureVars>>
    \/ \E t \in Threads : refresh_client_health_build(t) /\ UNCHANGED <<cacheVars, pureVars>>
    \/ \E t \in Threads : refresh_client_health_write(t) /\ UNCHANGED <<cacheVars, pureVars>>
    \/ \E t \in Threads : api_client_health_read(t) /\ UNCHANGED <<cacheVars, pureVars>>
    \/ \E t \in Threads : api_client_health_serve(t) /\ UNCHANGED <<cacheVars, pureVars>>

SpecHealth == InitHealth /\ [][HealthNext]_vars

InitNorm ==
    /\ CacheIdle /\ HealthIdle /\ ScoreIdle /\ SentimentIdle /\ PassIdle /\ StoreIdle /\ LaterIdle
    /\ raw_tasks \in RawSets
    /\ canonical = {}
    /\ normDone = FALSE

NormNext == fetch_second_pass /\ UNCHANGED <<cacheVars, healthVars, scoreVars, sentimentVars, passVars, storeVars, laterVars>>

SpecNorm == InitNorm /\ [][NormNext]_vars

InitScore ==
    /\ CacheIdle /\ HealthIdle /\ NormIdle /\ SentimentIdle /\ PassIdle /\ StoreIdle /\ LaterIdle
    /\ task_metrics \in {{}} \cup {{n} : n \in 0 .. MaxOverdue}
    /\ days_since_email \in OptionalDays
    /\ days_since_call \in OptionalDays
    /\ email_sentiment \in ScoredLabels
    /\ health = {}

ScoreNext == call_calculate_health /\ UNCHANGED <<cacheVars, healthVars, normVars, sentimentVars, passVars, storeVars, laterVars>>

SpecScore == InitScore /\ [][ScoreNext]_vars

InitSentiment ==
    /\ CacheIdle /\ HealthIdle /\ NormIdle /\ ScoreIdle /\ PassIdle /\ StoreIdle /\ LaterIdle
    /\ clients_with_emails \in (SUBSET Clients) \ {{}}
    /\ claude_reply \in ClaudeReplies
    /\ batch_results = {}
    /\ sentiment_pc = "call"
    /\ sentiment_snapshot = {}

SentimentNext ==
    \/ build_call_batch /\ UNCHANGED <<cacheVars, healthVars, normVars, scoreVars, passVars, storeVars, laterVars>>
    \/ build_update_and_write /\ UNCHANGED <<cacheVars, healthVars, normVars, scoreVars, passVars, storeVars, laterVars>>

SpecSentiment == InitSentiment /\ [][SentimentNext]_vars

InitPass ==
    /\ CacheIdle /\ HealthIdle /\ NormIdle /\ ScoreIdle /\ SentimentIdle /\ StoreIdle /\ LaterIdle
    /\ pass_kind \in {"daily", "health"}
    /\ sub_ok \in [SeqRange(SubjectsOf(pass_kind)) -> BOOLEAN]
    /\ todo = SubjectsOf(pass_kind)
    /\ processed = {}
    /\ logged = {}
    /\ pass_pc = "run"

PassNext ==
    \/ fetch_list_page /\ UNCHANGED <<cacheVars, healthVars, normVars, scoreVars, sentimentVars, storeVars, laterVars>>
    \/ cache_member_data /\ UNCHANGED <<cacheVars, healthVars, normVars, scoreVars, sentimentVars, storeVars, laterVars>>
    \/ fetch_client_task_list /\ UNCHANGED <<cacheVars, healthVars, normVars, scoreVars, sentimentVars, storeVars, laterVars>>
    \/ match_recording /\ UNCHANGED <<cacheVars, healthVars, normVars, scoreVars, sentimentVars, storeVars, laterVars>>
    \/ search_client_emails /\ UNCHANGED <<cacheVars, healthVars, normVars, scoreVars, sentimentVars, storeVars, laterVars>>
    \/ pass_save /\ UNCHANGED <<cacheVars, healthVars, normVars, scoreVars, sentimentVars, storeVars, laterVars>>

SpecPass == InitPass /\ [][PassNext]_vars

\* the table holds what an earlier write left
InitStore ==
    /\ CacheIdle /\ HealthIdle /\ NormIdle /\ ScoreIdle /\ SentimentIdle /\ PassIdle /\ LaterIdle
    /\ store_input \in StoreTaskSets
    /\ task_cache \in {{}, {task_row([id |-> 1, date_closed |-> Null,
                                      date_created |-> Null, due_date |-> Null])}}
    /\ read_back = {}
    /\ store_pc = "write"

StoreNext ==
    \/ write_task_cache /\ UNCHANGED <<cacheVars, healthVars, normVars, scoreVars, sentimentVars, passVars, laterVars>>
    \/ read_task_cache_rows /\ UNCHANGED <<cacheVars, healthVars, normVars, scoreVars, sentimentVars, passVars, laterVars>>

SpecStore == InitStore /\ [][StoreNext]_vars

InitField ==
    /\ CacheIdle /\ HealthIdle /\ EarlierIdle /\ EffIdle /\ VelIdle /\ WriteIdle /\ NamesIdle /\ PageIdle /\ WeekIdle /\ WeekIdle
    /\ custom_fields \in UNION {[1 .. n -> FieldEntries] : n \in 0 .. MaxFields}
    /\ score = {}
    /\ field_pc = "parse"

FieldNext == call_parse_task /\ UNCHANGED <<cacheVars, healthVars, earlierVars, effVars, velVars, writeVars, namesVars, pageVars, weekVars>>

SpecField == InitField /\ [][FieldNext]_vars

InitEff ==
    /\ CacheIdle /\ HealthIdle /\ EarlierIdle /\ FieldIdle /\ VelIdle /\ WriteIdle /\ NamesIdle /\ PageIdle /\ WeekIdle /\ WeekIdle
    /\ completed_this_week \in UNION {[1 .. n -> CompletedTasks] : n \in 0 .. MaxCompleted}
    /\ score_metrics = {}
    /\ eff_pc = "calc"

EffNext == calculate_score_metrics /\ UNCHANGED <<cacheVars, healthVars, earlierVars, fieldVars, velVars, writeVars, namesVars, pageVars, weekVars>>

SpecEff == InitEff /\ [][EffNext]_vars

InitVel ==
    /\ CacheIdle /\ HealthIdle /\ EarlierIdle /\ FieldIdle /\ EffIdle /\ WriteIdle /\ NamesIdle /\ PageIdle /\ WeekIdle /\ WeekIdle
    /\ vel_weeks \in 0 .. MaxHistoryWeeks
    /\ busy_weeks \in SUBSET HistoryWeeks
    /\ vel_now = 0
    /\ vel_done = 0
    /\ history = <<>>
    /\ offsets = <<>>
    /\ vel_pc = "loop"

VelNext ==
    \/ velocity_iteration /\ UNCHANGED <<cacheVars, healthVars, earlierVars, fieldVars, effVars, writeVars, namesVars, pageVars, weekVars>>
    \/ velocity_return /\ UNCHANGED <<cacheVars, healthVars, earlierVars, fieldVars, effVars, writeVars, namesVars, pageVars, weekVars>>
    \/ week_boundary /\ UNCHANGED <<cacheVars, healthVars, earlierVars, fieldVars, effVars, writeVars, namesVars, pageVars, weekVars>>

SpecVel == InitVel /\ [][VelNext]_vars

InitWrite == CacheIdle /\ HealthIdle /\ EarlierIdle /\ FieldIdle /\ EffIdle /\ VelIdle /\ WriteIdle /\ NamesIdle /\ PageIdle /\ WeekIdle /\ WeekIdle

WriteNext ==
    \/ sentiment_override_post_request /\ UNCHANGED <<cacheVars, healthVars, earlierVars, fieldVars, effVars, velVars, namesVars, pageVars, weekVars>>
    \/ save_excluded_assignees_request /\ UNCHANGED <<cacheVars, healthVars, earlierVars, fieldVars, effVars, velVars, namesVars, pageVars, weekVars>>
    \/ save_team_capacity_request /\ UNCHANGED <<cacheVars, healthVars, earlierVars, fieldVars, effVars, velVars, namesVars, pageVars, weekVars>>

SpecWrite == InitWrite /\ [][WriteNext]_vars

\* the list holds distinct source accounts
InitNames ==
    /\ CacheIdle /\ HealthIdle /\ EarlierIdle /\ FieldIdle /\ EffIdle /\ VelIdle /\ WriteIdle /\ PageIdle /\ WeekIdle
    /\ account_tasks \in UNION {[1 .. n -> AccountTasks] : n \in 0 .. MaxAccounts}
    /\ \A i, j \in DOMAIN account_tasks :
           account_tasks[i].name = account_tasks[j].name => i = j
    /\ health_status \in [SeqRange(DisplayOrder) -> {"red", "green"}]
    /\ active_clients = <<>>
    /\ health_clients = <<>>
    /\ names_pc = "accounts"

NamesNext ==
    \/ build_fetch_active_accounts /\ UNCHANGED <<cacheVars, healthVars, earlierVars, fieldVars, effVars, velVars, writeVars, pageVars, weekVars>>
    \/ build_client_records /\ UNCHANGED <<cacheVars, healthVars, earlierVars, fieldVars, effVars, velVars, writeVars, pageVars, weekVars>>

SpecNames == InitNames /\ [][NamesNext]_vars

InitPage ==
    /\ CacheIdle /\ HealthIdle /\ EarlierIdle /\ FieldIdle /\ EffIdle /\ VelIdle /\ WriteIdle /\ NamesIdle /\ WeekIdle
    /\ full_pages \in 0 .. MaxFullPages
    /\ last_len \in 0 .. (PageSize - 1)
    /\ failing_pages \in SUBSET (0 .. MaxFullPages)
    /\ page = 0
    /\ all_items = <<>>
    /\ requested = <<>>
    /\ page_pc = "loop"

PageNext ==
    \/ request_page /\ UNCHANGED <<cacheVars, healthVars, earlierVars, fieldVars, effVars, velVars, writeVars, namesVars, weekVars>>
    \/ paginated_return /\ UNCHANGED <<cacheVars, healthVars, earlierVars, fieldVars, effVars, velVars, writeVars, namesVars, weekVars>>

\* the thread that runs the loop keeps running
SpecPage == InitPage /\ [][PageNext]_vars /\ WF_vars(PageNext)

InitWeek ==
    /\ CacheIdle /\ HealthIdle /\ EarlierIdle /\ FieldIdle /\ EffIdle /\ VelIdle /\ WriteIdle /\ NamesIdle /\ PageIdle
    /\ WeekIdle

WeekNext ==
    \/ week_refresh_daily_cache /\ UNCHANGED <<cacheVars, healthVars, earlierVars, fieldVars, effVars, velVars, writeVars, namesVars, pageVars>>
    \/ week_api_metrics /\ UNCHANGED <<cacheVars, healthVars, earlierVars, fieldVars, effVars, velVars, writeVars, namesVars, pageVars>>
    \/ clock_passes_monday /\ UNCHANGED <<cacheVars, healthVars, earlierVars, fieldVars, effVars, velVars, writeVars, namesVars, pageVars>>

SpecWeek == InitWeek /\ [][WeekNext]_vars

(***************************************************************************)
(* Properties of the cache tiers                                           *)
(***************************************************************************)
SnapshotOf(ts) ==
    [metrics |-> [w \in Weeks |-> {Metrics(w, ts)}],
     velocity |-> [w \in Weeks |-> {Metrics(w, ts)}]]

\* the task rows some entry of a snapshot was computed from
SourceRows(data) ==
    UNION {m.src : m \in UNION {data.metrics[w] \cup data.velocity[w] : w \in Weeks}}

\* C1: with one refresh pass and any number of request-serving readers, the
\* metrics snapshot a reader can observe is never newer than the task data in
\* the durable task store: no entry of the snapshot was computed from a task
\* row of a later upstream generation than the rows the store holds.
C1_SnapshotNotNewerThanStore ==
    (refreshes <= 1 /\ dailyMem # {} /\ taskDb # {}) =>
        \A r \in SourceRows(The(dailyMem)) : \E s \in taskDb : s.rev >= r.rev

C3_ConcurrentRefreshAsOneAlone ==
    (nextReq = 2 /\ \A t \in Threads :
                        op[t] = "refresh" /\ pc[t] = "done" /\ tasks[t] # {})
    => \E t \in Threads :
          /\ cache.present /\ cache.value = tasks[t]
          /\ taskDb = tasks[t]
          /\ dailyMem = {SnapshotOf(tasks[t])}

\* C4: once a good snapshot exists, what a reader loads stays the last good
\* snapshot, also after a pass whose upstream calls failed.
C4_LastGoodSnapshotKept ==
    (lastGood # {} /\ dailyLock = None) => LoadResult = lastGood

\* C5: get_all_tasks reaches the upstream fetch only when both tiers missed,
\* and never in a read that began after a refresh pass had completed.
C5_NoFetchAfterFirstPass ==
    \A t \in Threads :
        (pc[t] = "fetch" /\ ret[t] = "ga") => (got[t] = {} /\ ~lateRead[t])

\* C8: a memo entry returned to a request was written while serving that
\* same request.
C8_MemoNeverCrossesRequests ==
    [][\A t \in Threads :
          (calculate_metrics_check(t) /\ memo[wk[t]] # {}
              /\ op[t] \in {"insights", "metrics"})
          => memoBy[wk[t]] = req[t]]_vars

\* C9: with no refresh pass, the second calculate_metrics(0, None) of a
\* request returns what the first returned, and is answered from the memo.
C9_SecondCallIsMemoHit ==
    \A t \in Threads :
        (op[t] = "insights" /\ r2[t] # {} /\ refreshes = 0)
        => (r2[t] = r1[t] /\ hit2[t])

(***************************************************************************)
(* Properties of the sentiment overrides (SpecHealth)                      *)
(***************************************************************************)
\* C6: a finished read of the client-health endpoint that found no override
\* for a client (the override was never saved, or was saved and later
\* removed) returns for that client the sentiment the refresh that produced
\* the snapshot computed.
C6_RemovedOverrideRevealsComputed ==
    \A t \in Threads :
        (hop[t] = "read" /\ hpc[t] = "done" /\ served[t] # {}) =>
            \A c \in Clients :
                hov[t][c] = None =>
                    The(served[t])[c].sent = The(served[t])[c].calc

\* C7: overrides never change the stored base: the sentiment of every client
\* in the stored snapshot is the computed one, and whenever a served record
\* carries an override its ai_sentiment is the computed sentiment.
C7_OverridesLeaveCachedBase ==
    /\ \A c \in Clients :
          healthDb # {} => The(healthDb)[c].sent = The(healthDb)[c].calc
    /\ \A t \in Threads : \A c \in Clients :
          (served[t] # {} /\ The(served[t])[c].ov # None) =>
              The(served[t])[c].ai = The(served[t])[c].calc

(***************************************************************************)
(* Properties of the task normalizer (SpecNorm)                            *)
(***************************************************************************)
IdsOf(ts) == {x.id : x \in ts}
HasChild(p, ts) == \E c \in ts : c.parent = p.id
ChildrenOf(p, ts) == {c \in ts : c.parent = p.id}

\* C10 as stated: a task that is the parent of a task of the set does not
\* appear in the canonical list, and its children do.
C10_ParentsDroppedChildrenKept ==
    normDone =>
        \A p \in raw_tasks :
            HasChild(p, raw_tasks) =>
                /\ p.id \notin IdsOf(canonical)
                /\ \A c \in ChildrenOf(p, raw_tasks) : c.id \in IdsOf(canonical)

\* C10 amended: a task that is the parent of a task of the set does not
\* appear in the canonical list; each of its children appears exactly when
\* it is not itself the parent of a task of the set.
C10_ParentsDroppedLeafChildrenKept ==
    normDone =>
        \A p \in raw_tasks :
            HasChild(p, raw_tasks) =>
                /\ p.id \notin IdsOf(canonical)
                /\ \A c \in ChildrenOf(p, raw_tasks) :
                      c.id \in IdsOf(canonical) <=> ~HasChild(c, raw_tasks)

\* a normalized set with a parent, a child of it that is itself a parent
\* (dropped), and a child that is a leaf (kept)
C10_Witness ==
    /\ normDone
    /\ \E p \in raw_tasks : \E c, d \in ChildrenOf(p, raw_tasks) :
          /\ HasChild(c, raw_tasks) /\ c.id \notin IdsOf(canonical)
          /\ ~HasChild(d, raw_tasks) /\ d.id \in IdsOf(canonical)

(***************************************************************************)
(* Properties of the health scorer (SpecScore)                             *)
(***************************************************************************)
Range(q) == {q[i] : i \in 1 .. Len(q)}
Count(S) == Cardinality({b \in S : b[2]})
Touch == days_since_email \cup days_since_call
Overdue == overdue_count(task_metrics)

\* the signals that fire by the scoring rules, as <<rule, fired>> pairs
RedFired ==
    Count({<<"overdue", Overdue >= 4>>,
           <<"touchpoint", Touch # {} /\ Min(Touch \cup {MaxDays + 1}) > 14>>,
           <<"sentiment", email_sentiment = "negative">>})
YellowFired ==
    Count({<<"overdue", 1 <= Overdue /\ Overdue <= 3>>,
           <<"touchpoint", /\ Touch # {}
                           /\ Min(Touch \cup {MaxDays + 1}) > 7
                           /\ Min(Touch \cup {MaxDays + 1}) <= 14>>,
           <<"sentiment", email_sentiment \in {"concerned", "mildly_negative"}>>})

\* C11: the status is red when a red signal fired; else red with
\* escalated = true when two or more yellow signals fired; else yellow when
\* exactly one yellow signal fired; else green with reasons ["All healthy"];
\* the escalated key is present only in the escalation case.
C11_StatusBySignalCounts ==
    health # {} =>
        /\ RedFired >= 1 =>
              The(health).status = "red" /\ The(health).escalated = {}
        /\ (RedFired = 0 /\ YellowFired >= 2) =>
              The(health).status = "red" /\ The(health).escalated = {TRUE}
        /\ (RedFired = 0 /\ YellowFired = 1) =>
              The(health).status = "yellow" /\ The(health).escalated = {}
        /\ (RedFired = 0 /\ YellowFired = 0) =>
              /\ The(health).status = "green"
              /\ The(health).reasons = <<"All healthy">>
              /\ The(health).escalated = {}

\* two yellow signals and no red one: the escalation case
C11_Witness ==
    /\ health # {}
    /\ RedFired = 0 /\ YellowFired = 2
    /\ The(health).escalated = {TRUE}

\* C12: when a signal fired, the reasons are every fired red reason followed
\* by every fired yellow reason, each group in rule order (overdue tasks,
\* touchpoint, sentiment); 2 overdue tasks and a touchpoint 10 days ago with
\* no other signal give exactly the two reasons of the example.
C12_ReasonsRedThenYellowInRuleOrder ==
    health # {} =>
        /\ RedFired + YellowFired >= 1 =>
              /\ The(health).reasons =
                     overdue_signal(Overdue).red
                     \o touchpoint_signal(days_since_email, days_since_call).red
                     \o sentiment_signal(email_sentiment).red
                     \o overdue_signal(Overdue).yellow
                     \o touchpoint_signal(days_since_email, days_since_call).yellow
                     \o sentiment_signal(email_sentiment).yellow
              /\ Len(The(health).reasons) = RedFired + YellowFired
        /\ (/\ Overdue = 2 /\ Touch # {} /\ Min(Touch \cup {MaxDays + 1}) = 10
            /\ email_sentiment \in {"positive", "neutral"}) =>
              The(health).reasons = <<"2 overdue tasks", "Last touchpoint 10 days ago">>

\* a red reason followed by two yellow ones
C12_Witness ==
    /\ health # {}
    /\ RedFired = 1 /\ YellowFired = 2
    /\ Len(The(health).reasons) = 3

Rank(status) == IF status = "green" THEN 0 ELSE IF status = "yellow" THEN 1 ELSE 2

\* C13: with the other inputs equal, the status for an overdue count is never
\* better than the status for any smaller overdue count.
C13_MonotoneInOverdue ==
    health # {} =>
        \A m \in 0 .. Overdue :
            Rank(calculate_health({m}, days_since_email, days_since_call,
                                  email_sentiment).status)
                <= Rank(The(health).status)

\* 4 overdue tasks make red what 3 made yellow and 0 made green
C13_Witness ==
    /\ health # {} /\ Overdue = 4
    /\ The(health).status = "red"
    /\ calculate_health({3}, days_since_email, days_since_call,
                        email_sentiment).status = "yellow"
    /\ calculate_health({0}, days_since_email, days_since_call,
                        email_sentiment).status = "green"

TouchpointRed(d) == "No touchpoint in " \o ToString(d) \o " days"
TouchpointYellow(d) == "Last touchpoint " \o ToString(d) \o " days ago"
TouchpointReasons ==
    {TouchpointRed(d) : d \in 0 .. MaxDays} \cup {TouchpointYellow(d) : d \in 0 .. MaxDays}

\* C14: the touchpoint signal uses the minimum of days-since-email and
\* days-since-call over the non-null ones: no touchpoint reason when both
\* are null or the minimum is <= 7, the red one (and status red) when it is
\* > 14, the yellow one (and a status that is not green) when it is 8..14.
C14_TouchpointUsesMinimum ==
    health # {} =>
        /\ (Touch = {} \/ Min(Touch \cup {MaxDays + 1}) <= 7) =>
              Range(The(health).reasons) \cap TouchpointReasons = {}
        /\ (Touch # {} /\ Min(Touch \cup {MaxDays + 1}) > 14) =>
              /\ Range(The(health).reasons) \cap TouchpointReasons =
                     {TouchpointRed(Min(Touch))}
              /\ The(health).status = "red"
        /\ (/\ Touch # {} /\ Min(Touch \cup {MaxDays + 1}) > 7
            /\ Min(Touch \cup {MaxDays + 1}) <= 14) =>
              /\ Range(The(health).reasons) \cap TouchpointReasons =
                     {TouchpointYellow(Min(Touch))}
              /\ The(health).status # "green"
              /\ (RedFired = 0 /\ YellowFired = 1) => The(health).status = "yellow"

\* the email is older than 14 days, the call is recent: no touchpoint signal
C14_Witness ==
    /\ health # {}
    /\ days_since_email = {15} /\ days_since_call = {3}
    /\ The(health).status = "green"

OverdueReasons ==
    {ToString(n) \o " overdue tasks" : n \in 0 .. MaxOverdue}
        \cup {ToString(n) \o " overdue task" : n \in 0 .. MaxOverdue}

\* C15: the overdue signal is red with reason "{n} overdue tasks" for n >= 4,
\* yellow for n in 1..3 and absent for n = 0; 5 overdue tasks with no email
\* or call data and neutral sentiment are red with "5 overdue tasks".
C15_OverdueSignalThresholds ==
    health # {} =>
        /\ Overdue >= 4 =>
              /\ The(health).status = "red"
              /\ The(health).reasons[1] = ToString(Overdue) \o " overdue tasks"
        /\ (1 <= Overdue /\ Overdue <= 3) =>
              /\ Cardinality(Range(The(health).reasons) \cap OverdueReasons) = 1
              /\ The(health).status # "green"
              /\ (RedFired = 0 /\ YellowFired = 1) => The(health).status = "yellow"
        /\ Overdue = 0 =>
              Range(The(health).reasons) \cap OverdueReasons = {}
        /\ (Overdue = 5 /\ Touch = {} /\ email_sentiment = "neutral") =>
              /\ The(health).status = "red"
              /\ The(health).reasons = <<"5 overdue tasks">>

\* the scenario: 5 overdue tasks, no email or call data, neutral sentiment
C15_Witness ==
    /\ health # {}
    /\ task_metrics = {5} /\ Touch = {} /\ email_sentiment = "neutral"
    /\ The(health).status = "red"

(***************************************************************************)
(* Properties of the sentiment classification (SpecSentiment)              *)
(***************************************************************************)
\* C16: however the classification call ends, the health pass completes and
\* writes the health snapshot, and every stored sentiment is one of
\* positive, neutral, concerned, negative.
C16_ClassifierFailureDegradesToNeutral ==
    sentiment_pc \in {"written", "failed"} =>
        /\ sentiment_pc = "written"
        /\ sentiment_snapshot # {}
        /\ \A c \in Clients : The(sentiment_snapshot)[c] \in Sentiments

(***************************************************************************)
(* Properties of the sub-fetches of a pass (SpecPass)                      *)
(***************************************************************************)
\* the pages of a list before page s all answered
PagesBeforeOk(s) ==
    \A q \in SeqRange(DailySubjects) :
        (q.kind = "page" /\ q.owner = s.owner /\ q.n < s.n) => sub_ok[q]

C18_ColdStartReadDoesNotBlockOnUpstream ==
    \A t \in Threads :
        (op[t] = "metrics" /\ pc[t] = "fetch") => passDone

(***************************************************************************)
(* Properties of the durable task store round trip (SpecStore)             *)
(***************************************************************************)
\* C19: the list read back from the durable task store after a write equals,
\* as a set, the list that was written, for every task set including the
\* empty one and tasks with null created / closed / due timestamps.
C19_WriteThenReadIsIdentity ==
    store_pc = "done" => read_back = {store_input}

\* a written and read-back list with a task that has a null and a non-null date
C19_Witness ==
    /\ store_pc = "done"
    /\ read_back = {store_input}
    /\ \E task \in store_input :
          task.date_closed = Null /\ task.date_created # Null

(***************************************************************************)
(* Locking of the named caches (SpecCache)                                 *)
(***************************************************************************)
\* C20: the durable task store, like the other named caches, is used under
\* an exclusive lock: no thread runs _read_task_cache while another thread
\* is inside _write_task_cache (between its first statement and its commit).
C20_TaskStoreReadExcludesWrite ==
    [][\A t \in Threads : read_task_cache(t) => dbTxn.owner = None]_vars

(***************************************************************************)
(* Properties of the score resolution                                      *)
(***************************************************************************)
FibonacciScores == {1, 2, 3, 5, 8, 13}

\* the value is one of the two known encodings of a score
KnownEncoding(value) ==
    \/ value.t = "str" /\ value.v \in DOMAIN SCORE_OPTIONS
    \/ value.t = "int" /\ value.v \in DOMAIN ORDERINDEX_TO_SCORE

\* C21: the score parse_task returns is one of 1, 2, 3, 5, 8, 13 or null, and
\* it is non-null only when the configured field holds a string of the UUID
\* table or an integer of the order-index table; a task whose configured
\* field holds no such value gets a null score.
C21_ScoreOnlyFromKnownEncodings ==
    field_pc = "done" =>
        /\ score \subseteq FibonacciScores
        /\ score # {} =>
               \E i \in DOMAIN custom_fields :
                   /\ custom_fields[i].id = FIBONACCI_FIELD_ID
                   /\ KnownEncoding(custom_fields[i].value)

\* the entries of custom_fields whose id is the configured field id
Matching == {i \in DOMAIN custom_fields : custom_fields[i].id = FIBONACCI_FIELD_ID}

\* C26: the first entry whose id equals the configured field id decides the
\* score, whatever its value is; no later entry with the same id has any
\* influence.
C26_FirstMatchingEntryDecides ==
    field_pc = "done" =>
        IF Matching = {} THEN score = {}
        ELSE LET first == CHOOSE i \in Matching : \A j \in Matching : i <= j
             IN score = fibonacci_score(<<custom_fields[first]>>)

(***************************************************************************)
(* Properties of the efficiency by score                                   *)
(***************************************************************************)
\* the positions of the completed tasks of score s with logged time
Timed(s) ==
    {i \in DOMAIN completed_this_week :
        completed_this_week[i].score = {s} /\ completed_this_week[i].time_spent > 0}

RECURSIVE TotalTime(_)
TotalTime(S) ==
    IF S = {} THEN 0
    ELSE LET i == CHOOSE i \in S : TRUE
         IN completed_this_week[i].time_spent + TotalTime(S \ {i})

C23_OneEntryPerWeekOldestFirst ==
    vel_pc = "returned" =>
        /\ Len(history) = vel_weeks
        /\ \A i \in 1 .. vel_weeks : offsets[i] = i - vel_weeks
        /\ \A i \in 1 .. vel_weeks - 1 :
               /\ vel_now <= 1 => history[i].week_start <= history[i + 1].week_start
               /\ vel_now = 0 => history[i].week_start < history[i + 1].week_start

\* get_velocity_history(8, None) has returned and some of the 8 weeks have no
\* completed task while another has
C23_Witness ==
    /\ vel_pc = "returned"
    /\ vel_weeks = 8
    /\ Len(history) = 8
    /\ \E i, j \in 1 .. 8 : history[i].tasks = 0 /\ history[j].tasks > 0

(***************************************************************************)
(* Properties of the write paths                                           *)
(***************************************************************************)
\* the payloads the write paths are to refuse
Malformed(r) ==
    \/ /\ r.path = "sentiment-override"
       /\ \/ r.body.kind # "object"
          \/ r.body.client \subseteq {JStr("")}
          \/ r.body.rating \subseteq {JStr("")}
          \/ \E x \in r.body.rating : x.t # "str" \/ lower(x.s) \notin Sentiments
    \/ /\ r.path = "excluded-assignees"
       /\ \/ r.body.kind # "list"
          \/ \E x \in SeqRange(r.body.items) : x.t # "str"
    \/ /\ r.path = "team-capacity"
       /\ ~(r.body.kind = "object" /\ r.body.hours # {})

C25_DisplayNamesUnique ==
    names_pc = "built" =>
        \A i, j \in DOMAIN health_clients :
            health_clients[i].name = health_clients[j].name => i = j

(***************************************************************************)
(* Properties of the pagination                                            *)
(***************************************************************************)
\* the first page that comes back with fewer items than the page size: a
\* failed page or the page after the full ones
StopPage == CHOOSE p \in 0 .. full_pages :
                /\ p \in failing_pages \/ p = full_pages
                /\ \A q \in 0 .. (p - 1) : q \notin failing_pages

RECURSIVE Concat(_, _)
\* the items of the pages 0 .. p as the upstream holds them
Concat(p, stop) ==
    IF p > stop THEN <<>>
    ELSE (IF p \in failing_pages THEN <<>> ELSE upstream_page(p, full_pages, last_len))
             \o Concat(p + 1, stop)

\* C27: clickup_request_paginated requests the pages 0, 1, 2, ... in order
\* up to the first page with fewer items than the page size (a failed page
\* counts as empty), returns the concatenation of the pages up to and
\* including that page (the partial result when the page failed), and
\* returns after finitely many requests.
C27_PagesInOrderUntilShortPage ==
    /\ [](page_pc = "returned" =>
            /\ requested = [i \in 1 .. (StopPage + 1) |-> i - 1]
            /\ all_items = Concat(0, StopPage))
    /\ (page_pc = "loop") ~> (page_pc = "returned")

\* a list with full pages was cut short by a failed page: the partial result
C27_Witness ==
    /\ page_pc = "returned"
    /\ StopPage \in failing_pages
    /\ 0 < StopPage /\ StopPage < full_pages
    /\ Len(all_items) = StopPage * PageSize

(***************************************************************************)
(* Properties of the week keys                                             *)
(***************************************************************************)
\* C28: whenever the metrics read path answers a request for weekOffset k,
\* from the precomputed snapshot or by computing, the week of the returned
\* snapshot is the Monday-to-Sunday week that contains now + k weeks at the
\* time of the request, also when the snapshot was precomputed before a week
\* boundary was crossed.
C28_AnswerDescribesRequestedWeek ==
    \A a \in answer : a.metrics.week = a.at + a.k

(***************************************************************************)
(* Properties of a refresh pass among readers                              *)
(***************************************************************************)
\* C29: with one refresh pass and any number of request threads calling
\* get_all_tasks, every task set the pass computes a snapshot entry from (what
\* get_all_tasks returned to its calculate_metrics) is exactly the task set
\* this pass fetched and wrote to the durable store; a reader that stores the
\* previous task set into the in-memory tier cannot change that.
C29_PassComputesFromOwnTaskSet ==
    \A t \in Threads :
        (/\ op[t] = "refresh" /\ pc[t] = "store" /\ refreshes = 1
         /\ tasks[t] \in {FullSet(g) : g \in Gens})
        => got[t] = tasks[t]

(***************************************************************************)
(* Properties of concurrent override updates                               *)
(***************************************************************************)
\* C30: no update to the sentiment-override map is lost: when two
\* save_override / delete_override calls for distinct clients have run, in
\* any interleaving, the persisted map reflects both (a saved client is
\* present with its rating, a deleted client is absent).
C30_NoOverrideUpdateLost ==
    (/\ healthOps = 2
     /\ \A t \in Threads : hop[t] \in {"save", "delete"} /\ hpc[t] = "done"
     /\ hclient["t1"] # hclient["t2"])
    => \A t \in Threads : overrides[hclient[t]] = hrating[t]
====
